---- MODULE Spec2Model ----
(***************************************************************************)
(* Cash-flow forecasting engine of Tally & Trace                            *)
(* (backend/app/services/forecast.py) over the rows of the accounts,        *)
(* budget_entries and transactions tables.                                  *)
(*                                                                          *)
(* Timestamps are records [year, month, day, tod]; tod is the time of day   *)
(* (0 = 00:00:00, 1 = a later time of the same day).  Money held in a       *)
(* Python float is an integer number of units, UnitsPerCent units to the    *)
(* cent; the tables store whole cents (DECIMAL(15,2)).                      *)
(***************************************************************************)
EXTENDS Integers, Sequences, FiniteSets, TLC

\* ------------------------------------------------------------------------
\* Bounds of the model
\* ------------------------------------------------------------------------
\* largest `months` argument of project_cashflow
MaxMonths == 3
\* largest number of rows of the three tables together
MaxRows == 3
\* largest number of months, forwards or backwards, given to add_months
MaxShift == 14
\* largest amount, in cents, given to monthly_equivalent
MaxCents == 20

\* ------------------------------------------------------------------------
\* Program constants
\* ------------------------------------------------------------------------
\* iteration cap of the occurrence walk of get_upcoming_items
WalkCap == 100
\* units of the float model per cent: the least common multiple of the
\* cadence divisors, so that amount / divisor is exact
UnitsPerCent == 12

NoEntity == 0
NoDescription == ""
Placeholder == "Unposted transaction"

\* ------------------------------------------------------------------------
\* datetime
\* ------------------------------------------------------------------------
DT(y, m, d, t) == [year |-> y, month |-> m, day |-> d, tod |-> t]

\* total order of naive datetimes (datetime.__lt__)
Key(dt) == ((dt.year * 12 + (dt.month - 1)) * 31 + (dt.day - 1)) * 2 + dt.tod

Before(a, b) == Key(a) < Key(b)
NotAfter(a, b) == Key(a) <= Key(b)

IsLeap(y) == (y % 4 = 0) /\ ((y % 100 # 0) \/ (y % 400 = 0))

\* calendar.monthrange(year, month)[1]
monthrange(y, m) ==
    IF m = 2 THEN (IF IsLeap(y) THEN 29 ELSE 28)
    ELSE IF m \in {4, 6, 9, 11} THEN 30
    ELSE 31

Min(a, b) == IF a <= b THEN a ELSE b

\* the year carried by a division that truncates towards zero
AddMonthsTruncating(dt, months) ==
    LET month_index == dt.month - 1 + months
        carry == IF month_index < 0 THEN 0 - ((0 - month_index) \div 12)
                 ELSE month_index \div 12
        year  == dt.year + carry
        month == (month_index % 12) + 1
        day   == Min(dt.day, monthrange(year, month))
    IN  [dt EXCEPT !.year = year, !.month = month, !.day = day]

\* the year not carried
AddMonthsNoCarry(dt, months) ==
    LET month_index == dt.month - 1 + months
        month == (month_index % 12) + 1
        day   == Min(dt.day, monthrange(dt.year, month))
    IN  [dt EXCEPT !.month = month, !.day = day]

\* the day clamped to 28 in every month
AddMonthsClamp28(dt, months) ==
    LET month_index == dt.month - 1 + months
        year  == dt.year + (month_index \div 12)
        month == (month_index % 12) + 1
    IN  [dt EXCEPT !.year = year, !.month = month, !.day = Min(dt.day, 28)]

\* a last day of a month kept a last day of the month
AddMonthsEndOfMonth(dt, months) ==
    LET month_index == dt.month - 1 + months
        year  == dt.year + (month_index \div 12)
        month == (month_index % 12) + 1
        day   == IF dt.day = monthrange(dt.year, dt.month)
                 THEN monthrange(year, month)
                 ELSE Min(dt.day, monthrange(year, month))
    IN  [dt EXCEPT !.year = year, !.month = month, !.day = day]

add_months(dt, months) ==
    LET month_index == dt.month - 1 + months
        year  == dt.year + (month_index \div 12)
        month == (month_index % 12) + 1
        day   == Min(dt.day, monthrange(year, month))
    IN  [dt EXCEPT !.year = year, !.month = month, !.day = day]

\* semi_annual taken for every second month
CadenceMonthsSemiTwo(cadence) ==
    IF cadence = "monthly" THEN 1
    ELSE IF cadence = "quarterly" THEN 3
    ELSE IF cadence = "semi_annual" THEN 2
    ELSE IF cadence = "annual" THEN 12
    ELSE 1

CadenceMonths(cadence) ==
    IF cadence = "monthly" THEN 1
    ELSE IF cadence = "quarterly" THEN 3
    ELSE IF cadence = "semi_annual" THEN 6
    ELSE IF cadence = "annual" THEN 12
    ELSE 1

next_occurrence(current, cadence) == add_months(current, CadenceMonths(cadence))

\* days before January 1st of year y, and before the first of month m of it
DaysBeforeYear(y) ==
    (y - 1) * 365 + ((y - 1) \div 4) - ((y - 1) \div 100) + ((y - 1) \div 400)
DaysBeforeMonth(y, m) ==
    <<0, 31, 59, 90, 120, 151, 181, 212, 243, 273, 304, 334>>[m]
    + (IF m > 2 /\ IsLeap(y) THEN 1 ELSE 0)

\* date.toordinal() and date.fromordinal()
ToOrdinal(dt) == DaysBeforeYear(dt.year) + DaysBeforeMonth(dt.year, dt.month) + dt.day
FromOrdinal(n, tod) ==
    LET y == CHOOSE yy \in ((n \div 366) - 1)..((n \div 365) + 1) :
                 DaysBeforeYear(yy) < n /\ n <= DaysBeforeYear(yy + 1)
        m == CHOOSE mm \in 1..12 :
                 /\ DaysBeforeYear(y) + DaysBeforeMonth(y, mm) < n
                 /\ n <= DaysBeforeYear(y) + DaysBeforeMonth(y, mm) + monthrange(y, mm)
    IN  DT(y, m, n - DaysBeforeYear(y) - DaysBeforeMonth(y, m), tod)

\* dt + timedelta(days = n)
AddDays(dt, n) == FromOrdinal(ToOrdinal(dt) + n, dt.tod)

\* whole calendar months from the month of a to the month of b
MonthsApart(a, b) == (b.year * 12 + b.month) - (a.year * 12 + a.month)

\* datetime.isoformat(), date().isoformat() and strftime("%B %Y"): the
\* fields each string spells out, in the order it spells them
IsoDateTime(dt) == <<dt.year, dt.month, dt.day, dt.tod>>
IsoDate(dt) == <<dt.year, dt.month, dt.day>>
MonthLabel(dt) == <<dt.month, dt.year>>

\* now.replace(day=1): the time of day kept
StartOfMonthKeepsTime(dt) == [dt EXCEPT !.day = 1]

\* now.replace(day=1, hour=0, minute=0, second=0, microsecond=0)
StartOfMonth(dt) == [dt EXCEPT !.day = 1, !.tod = 0]

\* ------------------------------------------------------------------------
\* money
\* ------------------------------------------------------------------------
\* a DECIMAL(15,2) column read into a float
Float(cents) == cents * UnitsPerCent

\* round(x, 2): to the nearest cent, a tie to the even cent
round2(x) ==
    LET q == x \div UnitsPerCent
        r == x % UnitsPerCent
        c == IF 2 * r < UnitsPerCent THEN q
             ELSE IF 2 * r > UnitsPerCent THEN q + 1
             ELSE IF q % 2 = 0 THEN q ELSE q + 1
    IN  c * UnitsPerCent

\* ------------------------------------------------------------------------
\* State
\* ------------------------------------------------------------------------
VARIABLES
    accounts,        \* rows of table accounts, in query order
    budget_entries,  \* rows of table budget_entries, in query order
    transactions,    \* rows of table transactions, in query order
    pc,              \* "idle", or "returned" while a response is pending
    call,            \* the operation and arguments of the pending response
    result,          \* the value the operation returned
    wishlist_items,      \* rows of table wishlist_items
    entities,            \* rows of table entities
    entity_memberships,  \* rows of table entity_memberships
    users,               \* rows of table users
    email_tokens,        \* rows of table email_tokens
    serial,              \* last value of the id sequence of each table
    utcnow               \* datetime.utcnow(), in hours, where time passes

vars == <<accounts, budget_entries, transactions, pc, call, result,
          wishlist_items, entities, entity_memberships, users, email_tokens,
          serial, utcnow>>
db == <<accounts, budget_entries, transactions, wishlist_items, entities,
        entity_memberships, users, email_tokens, serial>>

\* the id sequences before their first nextval
NoSerial == [entities |-> 0, entity_memberships |-> 0, users |-> 0,
             email_tokens |-> 0]

\* ------------------------------------------------------------------------
\* Queries
\* ------------------------------------------------------------------------
\* the entity filter never applied
NoEntityFilter(row, entity_id) == TRUE

\* `if entity_id is not None: query = query.filter(X.entity_id == entity_id)`
EntityFilter(row, entity_id) == entity_id # NoEntity => row.entity_id = entity_id

\* the is_active filter left out
AccountsOfUser(accts, user_id, entity_id) ==
    SelectSeq(accts, LAMBDA a : a.user_id = user_id /\ EntityFilter(a, entity_id))

get_account_balances(accts, user_id, entity_id) ==
    SelectSeq(accts, LAMBDA a : a.user_id = user_id /\ a.is_active
                                /\ EntityFilter(a, entity_id))

\* the user_id filter left out
EntriesOfAnyUser(entries, user_id, entity_id) ==
    SelectSeq(entries, LAMBDA e : e.is_active /\ EntityFilter(e, entity_id))

ActiveEntries(entries, user_id, entity_id) ==
    SelectSeq(entries, LAMBDA e : e.user_id = user_id /\ e.is_active
                                  /\ EntityFilter(e, entity_id))

\* the is_posted filter left out
TxnsOfUser(txns, user_id, entity_id) ==
    SelectSeq(txns, LAMBDA t : t.user_id = user_id /\ EntityFilter(t, entity_id))

\* the user_id filter left out of the transaction query
TxnsOfAnyUser(txns, user_id, entity_id) ==
    SelectSeq(txns, LAMBDA t : ~t.is_posted /\ EntityFilter(t, entity_id))

UnpostedTxns(txns, user_id, entity_id) ==
    SelectSeq(txns, LAMBDA t : t.user_id = user_id /\ ~t.is_posted
                               /\ EntityFilter(t, entity_id))

RECURSIVE SumBalances(_)
\* sum(a.balance for a in accounts)
SumBalances(accts) ==
    IF accts = <<>> THEN 0
    ELSE Float(Head(accts).balance) + SumBalances(Tail(accts))

\* ------------------------------------------------------------------------
\* project_cashflow
\* ------------------------------------------------------------------------
RECURSIVE WalkToPeriodFor(_, _, _, _)
\* at most `steps` iterations of
\*   while occ < period_start: occ = _next_occurrence(occ, entry.cadence)
\* taken in two halves
WalkToPeriodFor(occ, cadence, period_start, steps) ==
    IF ~Before(occ, period_start) THEN occ
    ELSE IF steps <= 1 THEN next_occurrence(occ, cadence)
    ELSE WalkToPeriodFor(
             WalkToPeriodFor(occ, cadence, period_start, steps \div 2),
             cadence, period_start, steps - (steps \div 2))

\* `if` for `while`: a single step towards the period
WalkToPeriodOnce(occ, cadence, period_start) ==
    IF Before(occ, period_start) THEN next_occurrence(occ, cadence) ELSE occ

\* the whole loop: an iteration moves occ at least one calendar month on, so
\* the loop ends within MonthsApart(occ, period_start) + 1 iterations
WalkToPeriod(occ, cadence, period_start) ==
    WalkToPeriodFor(occ, cadence, period_start,
                    MonthsApart(occ, period_start) + 1)

RECURSIVE WalkInPeriod(_, _, _, _, _)
\* while period_start <= occ < period_end: add the amount, advance occ;
\* tot is <<income, expenses>>
WalkInPeriod(occ, entry, period_start, period_end, tot) ==
    IF NotAfter(period_start, occ) /\ Before(occ, period_end)
    THEN WalkInPeriod(next_occurrence(occ, entry.cadence), entry,
                      period_start, period_end,
                      IF entry.entry_type = "income"
                      THEN <<tot[1] + Float(entry.amount), tot[2]>>
                      ELSE <<tot[1], tot[2] + Float(entry.amount)>>)
    ELSE tot

RECURSIVE EntryTotals(_, _, _, _)
\* for entry in budget_entries: ... ; returns <<income, expenses>>
EntryTotals(entries, period_start, period_end, tot) ==
    IF entries = <<>> THEN tot
    ELSE LET entry == Head(entries)
             occ == WalkToPeriod(entry.next_occurrence, entry.cadence, period_start)
         IN  EntryTotals(Tail(entries), period_start, period_end,
                         WalkInPeriod(occ, entry, period_start, period_end, tot))

RECURSIVE UnpostedPeriodAnyType(_, _, _)
\* every type but credit counted as a debit, a transfer too
UnpostedPeriodAnyType(txns, period_start, period_end) ==
    IF txns = <<>> THEN 0
    ELSE LET txn == Head(txns)
             rest == UnpostedPeriodAnyType(Tail(txns), period_start, period_end)
         IN  IF NotAfter(period_start, txn.transaction_date)
                /\ Before(txn.transaction_date, period_end)
             THEN IF txn.transaction_type = "credit" THEN rest - Float(txn.amount)
                  ELSE Float(txn.amount) + rest
             ELSE rest

RECURSIVE UnpostedPeriodClosedEnd(_, _, _)
\* period_start <= txn_date <= period_end: the end of the period included
UnpostedPeriodClosedEnd(txns, period_start, period_end) ==
    IF txns = <<>> THEN 0
    ELSE LET txn == Head(txns)
             rest == UnpostedPeriodClosedEnd(Tail(txns), period_start, period_end)
         IN  IF NotAfter(period_start, txn.transaction_date)
                /\ NotAfter(txn.transaction_date, period_end)
             THEN IF txn.transaction_type = "debit" THEN Float(txn.amount) + rest
                  ELSE IF txn.transaction_type = "credit" THEN rest - Float(txn.amount)
                  ELSE rest
             ELSE rest

RECURSIVE UnpostedPeriod(_, _, _)
\* for txn in unposted_txns: ... ; returns unposted_period
UnpostedPeriod(txns, period_start, period_end) ==
    IF txns = <<>> THEN 0
    ELSE LET txn == Head(txns)
             rest == UnpostedPeriod(Tail(txns), period_start, period_end)
         IN  IF NotAfter(period_start, txn.transaction_date)
                /\ Before(txn.transaction_date, period_end)
             THEN IF txn.transaction_type = "debit" THEN Float(txn.amount) + rest
                  ELSE IF txn.transaction_type = "credit" THEN rest - Float(txn.amount)
                  ELSE rest
             ELSE rest

\* net = income + unposted_period: the unposted figure added, not deducted
PeriodAddsUnposted(period_start, opening, entries, txns) ==
    LET period_end == add_months(period_start, 1)
        tot == EntryTotals(entries, period_start, period_end, <<0, 0>>)
        unposted_period == UnpostedPeriod(txns, period_start, period_end)
        net == tot[1] - tot[2] + unposted_period
    IN  [period_end |-> period_end, income |-> tot[1], expenses |-> tot[2],
         unposted_period |-> unposted_period, net |-> net,
         closing |-> opening + net]

\* one pass of the loop body up to `closing = opening + net`: the values of
\* its local variables
Period(period_start, opening, entries, txns) ==
    LET period_end == add_months(period_start, 1)
        tot == EntryTotals(entries, period_start, period_end, <<0, 0>>)
        income == tot[1]
        expenses == tot[2]
        unposted_period == UnpostedPeriod(txns, period_start, period_end)
        net == income - expenses - unposted_period
        closing == opening + net
    IN  [period_end |-> period_end, income |-> income, expenses |-> expenses,
         unposted_period |-> unposted_period, net |-> net, closing |-> closing]

RECURSIVE Timeline(_, _, _, _, _)
\* for _ in range(months): ... timeline.append({...}); opening = closing;
\* period_start = period_end
Timeline(n, period_start, opening, entries, txns) ==
    IF n <= 0 THEN <<>>
    ELSE LET p == Period(period_start, opening, entries, txns)
         IN  << [period_label      |-> MonthLabel(period_start),
                 period_start      |-> IsoDateTime(period_start),
                 period_end        |-> IsoDateTime(p.period_end),
                 opening_balance   |-> round2(opening),
                 income            |-> round2(p.income),
                 expenses          |-> round2(p.expenses),
                 unposted_expenses |-> round2(p.unposted_period),
                 net               |-> round2(p.net),
                 closing_balance   |-> round2(p.closing)] >>
             \o Timeline(n - 1, p.period_end, p.closing, entries, txns)

project_cashflow(accts, entries, txns, user_id, entity_id, months, reference) ==
    Timeline(months,
             StartOfMonth(reference),
             SumBalances(get_account_balances(accts, user_id, entity_id)),
             ActiveEntries(entries, user_id, entity_id),
             UnpostedTxns(txns, user_id, entity_id))

\* ------------------------------------------------------------------------
\* get_upcoming_items
\* ------------------------------------------------------------------------
EntryItem(entry, occ) ==
    [name       |-> entry.name,
     amount     |-> Float(entry.amount),
     due_date   |-> IsoDate(occ),
     entry_type |-> entry.entry_type,
     source     |-> "budget_entry",
     source_id  |-> entry.id]

\* the description as stored, no placeholder
TxnItemAsStored(txn) ==
    [name       |-> txn.description,
     amount     |-> Float(txn.amount),
     due_date   |-> IsoDate(txn.transaction_date),
     entry_type |-> txn.transaction_type,
     source     |-> "transaction",
     source_id  |-> txn.id]

TxnItem(txn) ==
    [name       |-> IF txn.description = NoDescription THEN Placeholder
                    ELSE txn.description,
     amount     |-> Float(txn.amount),
     due_date   |-> IsoDate(txn.transaction_date),
     entry_type |-> txn.transaction_type,
     source     |-> "transaction",
     source_id  |-> txn.id]

RECURSIVE WalkUpcomingAfterNow(_, _, _, _, _)
\* `if occ > now` for `if occ >= now`
WalkUpcomingAfterNow(w, entry, now, cutoff, steps) ==
    IF ~(NotAfter(w.occ, cutoff) /\ w.counter < WalkCap) THEN w
    ELSE IF steps <= 1
    THEN [occ     |-> next_occurrence(w.occ, entry.cadence),
          counter |-> w.counter + 1,
          items   |-> IF Before(now, w.occ)
                      THEN Append(w.items, EntryItem(entry, w.occ))
                      ELSE w.items]
    ELSE WalkUpcomingAfterNow(
             WalkUpcomingAfterNow(w, entry, now, cutoff, steps \div 2),
             entry, now, cutoff, steps - (steps \div 2))

RECURSIVE WalkUpcomingUncapped(_, _, _, _, _)
\* `while occ <= cutoff`: no iteration cap
WalkUpcomingUncapped(w, entry, now, cutoff, steps) ==
    IF ~NotAfter(w.occ, cutoff) THEN w
    ELSE IF steps <= 1
    THEN [occ     |-> next_occurrence(w.occ, entry.cadence),
          counter |-> w.counter + 1,
          items   |-> IF NotAfter(now, w.occ)
                      THEN Append(w.items, EntryItem(entry, w.occ))
                      ELSE w.items]
    ELSE WalkUpcomingUncapped(
             WalkUpcomingUncapped(w, entry, now, cutoff, steps \div 2),
             entry, now, cutoff, steps - (steps \div 2))

RECURSIVE WalkUpcomingFor(_, _, _, _, _)
\* at most `steps` iterations of
\*   while occ <= cutoff and counter < 100: ...
\* taken in two halves; w is [occ, counter, items]
WalkUpcomingFor(w, entry, now, cutoff, steps) ==
    IF ~(NotAfter(w.occ, cutoff) /\ w.counter < WalkCap) THEN w
    ELSE IF steps <= 1
    THEN [occ     |-> next_occurrence(w.occ, entry.cadence),
          counter |-> w.counter + 1,
          items   |-> IF NotAfter(now, w.occ)
                      THEN Append(w.items, EntryItem(entry, w.occ))
                      ELSE w.items]
    ELSE WalkUpcomingFor(
             WalkUpcomingFor(w, entry, now, cutoff, steps \div 2),
             entry, now, cutoff, steps - (steps \div 2))

\* the whole loop, which counter < 100 ends within WalkCap iterations;
\* returns the items it appends
WalkUpcoming(entry, now, cutoff) ==
    WalkUpcomingFor([occ |-> entry.next_occurrence, counter |-> 0, items |-> <<>>],
                    entry, now, cutoff, WalkCap).items

RECURSIVE EntryItems(_, _, _)
\* for entry in be_query.all(): ...
EntryItems(entries, now, cutoff) ==
    IF entries = <<>> THEN <<>>
    ELSE WalkUpcoming(Head(entries), now, cutoff)
         \o EntryItems(Tail(entries), now, cutoff)

\* the filter transaction_date >= now left out
TxnsUpTo(txns, user_id, entity_id, now, cutoff) ==
    SelectSeq(UnpostedTxns(txns, user_id, entity_id),
              LAMBDA t : NotAfter(t.transaction_date, cutoff))

\* the filters transaction_date >= now, transaction_date <= cutoff
UpcomingTxns(txns, user_id, entity_id, now, cutoff) ==
    SelectSeq(UnpostedTxns(txns, user_id, entity_id),
              LAMBDA t : NotAfter(now, t.transaction_date)
                         /\ NotAfter(t.transaction_date, cutoff))

RECURSIVE TxnItems(_)
\* for txn in txn_query.all(): items.append({...})
TxnItems(txns) ==
    IF txns = <<>> THEN <<>> ELSE <<TxnItem(Head(txns))>> \o TxnItems(Tail(txns))

\* `<=` for `<`: equal keys change places
DateNotGreater(a, b) ==
    \/ a[1] < b[1]
    \/ a[1] = b[1] /\ a[2] < b[2]
    \/ a[1] = b[1] /\ a[2] = b[2] /\ a[3] <= b[3]

\* order of the strings date.isoformat() produces: by year, month, day
DateLess(a, b) ==
    \/ a[1] < b[1]
    \/ a[1] = b[1] /\ a[2] < b[2]
    \/ a[1] = b[1] /\ a[2] = b[2] /\ a[3] < b[3]

RECURSIVE InsertItem(_, _)
\* x goes behind every item whose key is not greater than its own
InsertItem(x, sorted) ==
    IF sorted = <<>> THEN <<x>>
    ELSE IF DateLess(x.due_date, Head(sorted).due_date) THEN <<x>> \o sorted
    ELSE <<Head(sorted)>> \o InsertItem(x, Tail(sorted))

RECURSIVE SortItems(_, _)
\* items.sort(key=lambda x: x["due_date"]): a stable sort
SortItems(items, sorted) ==
    IF items = <<>> THEN sorted
    ELSE SortItems(Tail(items), InsertItem(Head(items), sorted))

get_upcoming_items(entries, txns, user_id, entity_id, days, reference) ==
    LET now == reference
        cutoff == AddDays(now, days)
    IN  SortItems(EntryItems(ActiveEntries(entries, user_id, entity_id), now, cutoff)
                  \o TxnItems(UpcomingTxns(txns, user_id, entity_id, now, cutoff)),
                  <<>>)

\* ------------------------------------------------------------------------
\* get_disposable_income
\* ------------------------------------------------------------------------
\* divisors.get(cadence, 12): a cadence that is none of the four taken for
\* annual
DivisorDefaultAnnual(cadence) ==
    IF cadence = "monthly" THEN 1
    ELSE IF cadence = "quarterly" THEN 3
    ELSE IF cadence = "semi_annual" THEN 6
    ELSE 12

\* divisors.get(cadence, 1)
Divisor(cadence) ==
    IF cadence = "monthly" THEN 1
    ELSE IF cadence = "quarterly" THEN 3
    ELSE IF cadence = "semi_annual" THEN 6
    ELSE IF cadence = "annual" THEN 12
    ELSE 1

\* the amount as it is, not normalised
MonthlyEquivalentRaw(amount, cadence) == amount

\* amount is a float, in units
monthly_equivalent(amount, cadence) == amount \div Divisor(cadence)

RECURSIVE MonthlyTotals(_, _)
\* for entry in be_query.all(): ... ; tot is <<monthly_income, monthly_expenses>>
MonthlyTotals(entries, tot) ==
    IF entries = <<>> THEN tot
    ELSE LET entry == Head(entries)
             monthly == monthly_equivalent(Float(entry.amount), entry.cadence)
         IN  MonthlyTotals(Tail(entries),
                           IF entry.entry_type = "income"
                           THEN <<tot[1] + monthly, tot[2]>>
                           ELSE <<tot[1], tot[2] + monthly>>)

get_disposable_income(entries, user_id, entity_id) ==
    LET tot == MonthlyTotals(ActiveEntries(entries, user_id, entity_id), <<0, 0>>)
        disposable == tot[1] - tot[2]
    IN  [monthly_income     |-> round2(tot[1]),
         monthly_expenses   |-> round2(tot[2]),
         monthly_disposable |-> round2(disposable)]

\* ------------------------------------------------------------------------
\* Rows the tables are filled from
\* ------------------------------------------------------------------------
\* the authenticated user of the requests; the rows belong to users 1 and 2
Callers == {1}
\* the entity_id argument: None or an entity
EntityArgs == {NoEntity, 1, 2}

\* reference times: the last day of January of a leap year, after midnight,
\* and the first instant of a December
RefTimes == {DT(2024, 1, 31, 1), DT(2023, 12, 1, 0)}
DaysArgs == {1, 30}

Account(id, user_id, entity_id, balance, is_active) ==
    [id |-> id, user_id |-> user_id, entity_id |-> entity_id,
     balance |-> balance, is_active |-> is_active]

AccountRows ==
    << Account(1, 1, 1, 100000, TRUE),
       Account(2, 1, 2, -2550, TRUE),
       Account(3, 1, 1, 40000, FALSE),
       Account(4, 2, 1, 7000, TRUE) >>

BudgetEntry(id, user_id, entity_id, name, entry_type, amount, cadence, next_occ, is_active) ==
    [id |-> id, user_id |-> user_id, entity_id |-> entity_id, name |-> name,
     entry_type |-> entry_type, amount |-> amount, cadence |-> cadence,
     next_occurrence |-> next_occ, is_active |-> is_active]

\* anchors: a reference time that is the first instant of its month, a day
\* the next months lack, one more than WalkCap months old, a leap day;
\* amounts: two that a third of is no whole number of cents
BudgetEntryRows ==
    << BudgetEntry(1, 1, 1, "salary", "income", 50000, "monthly",
                   DT(2023, 12, 1, 0), TRUE),
       BudgetEntry(2, 1, 1, "rent", "expense", 30000, "monthly",
                   DT(2023, 12, 1, 0), TRUE),
       BudgetEntry(3, 1, 2, "insurance", "expense", 20000, "quarterly",
                   DT(2023, 11, 30, 1), TRUE),
       BudgetEntry(4, 1, NoEntity, "pension", "income", 7000, "monthly",
                   DT(2015, 1, 31, 1), TRUE),
       BudgetEntry(5, 2, 1, "bonus", "income", 99900, "annual",
                   DT(2024, 1, 31, 1), TRUE),
       BudgetEntry(6, 1, 1, "club", "expense", 4000, "semi_annual",
                   DT(2023, 12, 15, 0), FALSE),
       BudgetEntry(7, 1, 2, "dividend", "income", 10000, "quarterly",
                   DT(2024, 2, 29, 0), TRUE) >>

Transaction(id, user_id, entity_id, description, amount, transaction_type, transaction_date, is_posted) ==
    [id |-> id, user_id |-> user_id, entity_id |-> entity_id,
     description |-> description, amount |-> amount,
     transaction_type |-> transaction_type,
     transaction_date |-> transaction_date, is_posted |-> is_posted]

\* dates: a reference time itself, the first instant of a month (twice), a
\* reference time plus 30 days (twice)
TransactionRows ==
    << Transaction(1, 1, 1, "fee", 5000, "debit", DT(2024, 1, 31, 1), FALSE),
       Transaction(2, 1, 1, NoDescription, 5000, "credit", DT(2024, 2, 1, 0), FALSE),
       Transaction(3, 1, 2, "move", 2000, "transfer", DT(2024, 3, 1, 1), FALSE),
       Transaction(4, 1, NoEntity, "repair", 1500, "debit", DT(2023, 12, 31, 0), FALSE),
       Transaction(5, 1, 1, "paid", 8000, "debit", DT(2024, 2, 1, 0), TRUE),
       Transaction(6, 2, 1, "theirs", 3300, "debit", DT(2024, 1, 31, 1), FALSE) >>

Ids(rows) == {rows[i].id : i \in DOMAIN rows}

\* the rows with the given ids, in the order of their ids
Table(rows, ids) == SelectSeq(rows, LAMBDA r : r.id \in ids)

NoTime == DT(0, 1, 1, 0)
NoCall == [op |-> "none", user_id |-> 0, entity_id |-> NoEntity,
           months |-> 0, days |-> 0, reference |-> NoTime]

\* the tables hold at most MaxRows rows together
Init ==
    /\ \E ia \in SUBSET Ids(AccountRows), ie \in SUBSET Ids(BudgetEntryRows),
          it \in SUBSET Ids(TransactionRows) :
        /\ Cardinality(ia) + Cardinality(ie) + Cardinality(it) <= MaxRows
        /\ accounts = Table(AccountRows, ia)
        /\ budget_entries = Table(BudgetEntryRows, ie)
        /\ transactions = Table(TransactionRows, it)
    /\ pc = "idle"
    /\ call = NoCall
    /\ result = <<>>
    /\ wishlist_items = <<>>
    /\ entities = <<>>
    /\ entity_memberships = <<>>
    /\ users = <<>>
    /\ email_tokens = <<>>
    /\ serial = NoSerial
    /\ utcnow = 0

\* ------------------------------------------------------------------------
\* Operations
\* ------------------------------------------------------------------------
\* the walked occurrence written back to the row
ProjectCashflowWritesBack ==
    /\ pc = "idle"
    /\ \E user_id \in Callers, entity_id \in EntityArgs,
          months \in 1..MaxMonths, reference \in RefTimes :
        /\ result' = project_cashflow(accounts, budget_entries, transactions,
                                      user_id, entity_id, months, reference)
        /\ call' = [NoCall EXCEPT !.op = "project_cashflow", !.user_id = user_id,
                       !.entity_id = entity_id, !.months = months,
                       !.reference = reference]
        /\ budget_entries' =
              [k \in DOMAIN budget_entries |->
                  [budget_entries[k] EXCEPT !.next_occurrence =
                      WalkToPeriod(@, budget_entries[k].cadence,
                                   StartOfMonth(reference))]]
    /\ pc' = "returned"
    /\ UNCHANGED <<accounts, transactions, wishlist_items, entities,
                   entity_memberships, users, email_tokens, serial, utcnow>>

ProjectCashflow ==
    /\ pc = "idle"
    /\ \E user_id \in Callers, entity_id \in EntityArgs,
          months \in 1..MaxMonths, reference \in RefTimes :
        /\ result' = project_cashflow(accounts, budget_entries, transactions,
                                      user_id, entity_id, months, reference)
        /\ call' = [NoCall EXCEPT !.op = "project_cashflow", !.user_id = user_id,
                       !.entity_id = entity_id, !.months = months,
                       !.reference = reference]
    /\ pc' = "returned"
    /\ UNCHANGED <<db, utcnow>>

GetUpcomingItems ==
    /\ pc = "idle"
    /\ \E user_id \in Callers, entity_id \in EntityArgs,
          days \in DaysArgs, reference \in RefTimes :
        /\ result' = get_upcoming_items(budget_entries, transactions,
                                        user_id, entity_id, days, reference)
        /\ call' = [NoCall EXCEPT !.op = "get_upcoming_items", !.user_id = user_id,
                       !.entity_id = entity_id, !.days = days,
                       !.reference = reference]
    /\ pc' = "returned"
    /\ UNCHANGED <<db, utcnow>>

GetDisposableIncome ==
    /\ pc = "idle"
    /\ \E user_id \in Callers, entity_id \in EntityArgs :
        /\ result' = get_disposable_income(budget_entries, user_id, entity_id)
        /\ call' = [NoCall EXCEPT !.op = "get_disposable_income",
                       !.user_id = user_id, !.entity_id = entity_id]
    /\ pc' = "returned"
    /\ UNCHANGED <<db, utcnow>>

\* the handler hands the value to its caller
Return ==
    /\ pc = "returned"
    /\ pc' = "idle"
    /\ call' = NoCall
    /\ result' = <<>>
    /\ UNCHANGED <<db, utcnow>>

Next == ProjectCashflow \/ GetUpcomingItems \/ GetDisposableIncome \/ Return

Spec == Init /\ [][Next]_vars

\* ------------------------------------------------------------------------
\* The period helpers, called on their own
\* ------------------------------------------------------------------------
\* timestamps: the first and the last days of every month of a year before
\* a leap year, a leap year and the year before a century year that is none
HelperTimes ==
    {DT(q[1], q[2], q[3], q[4]) :
        q \in {p \in {2023, 2024, 2099} \X (1..12) \X {1, 28, 29, 30, 31} \X {0, 1} :
                  p[3] <= monthrange(p[1], p[2])}}

\* the members of RecurrenceFrequency and a value that is none of them
HelperCadences == {"monthly", "quarterly", "semi_annual", "annual", "weekly"}

InitHelpers ==
    /\ accounts = <<>>
    /\ budget_entries = <<>>
    /\ transactions = <<>>
    /\ pc = "idle"
    /\ call = NoCall
    /\ result = <<>>
    /\ wishlist_items = <<>>
    /\ entities = <<>>
    /\ entity_memberships = <<>>
    /\ users = <<>>
    /\ email_tokens = <<>>
    /\ serial = NoSerial
    /\ utcnow = 0

AddMonths ==
    /\ pc = "idle"
    /\ \E dt \in HelperTimes, months \in (0 - MaxShift)..MaxShift :
        /\ result' = add_months(dt, months)
        /\ call' = [op |-> "add_months", dt |-> dt, months |-> months]
    /\ pc' = "returned"
    /\ UNCHANGED <<db, utcnow>>

NextOccurrence ==
    /\ pc = "idle"
    /\ \E current \in HelperTimes, cadence \in HelperCadences :
        /\ result' = next_occurrence(current, cadence)
        /\ call' = [op |-> "next_occurrence", current |-> current,
                    cadence |-> cadence]
    /\ pc' = "returned"
    /\ UNCHANGED <<db, utcnow>>

MonthlyEquivalent ==
    /\ pc = "idle"
    /\ \E cents \in (0 - MaxCents)..MaxCents, cadence \in HelperCadences :
        /\ result' = monthly_equivalent(Float(cents), cadence)
        /\ call' = [op |-> "monthly_equivalent", amount |-> Float(cents),
                    cadence |-> cadence]
    /\ pc' = "returned"
    /\ UNCHANGED <<db, utcnow>>

NextHelpers == AddMonths \/ NextOccurrence \/ MonthlyEquivalent \/ Return

SpecHelpers == InitHelpers /\ [][NextHelpers]_vars

\* ------------------------------------------------------------------------
\* The occurrence walk of project_cashflow, one loop iteration a step
\* ------------------------------------------------------------------------
\* the first instants of the months a projection can reach
PeriodStarts ==
    {add_months(StartOfMonth(reference), i - 1) :
        reference \in RefTimes, i \in 1..MaxMonths}

InitWalk ==
    /\ accounts = <<>>
    /\ budget_entries = BudgetEntryRows
    /\ transactions = <<>>
    /\ pc = "idle"
    /\ call = NoCall
    /\ result = <<>>
    /\ wishlist_items = <<>>
    /\ entities = <<>>
    /\ entity_memberships = <<>>
    /\ users = <<>>
    /\ email_tokens = <<>>
    /\ serial = NoSerial
    /\ utcnow = 0

\* `for entry in budget_entries: occ = entry.next_occurrence` in the period
\* that starts at period_start; result holds the local occ
WalkStart ==
    /\ pc = "idle"
    /\ \E k \in DOMAIN budget_entries, period_start \in PeriodStarts :
        /\ call' = [op |-> "walk", entry |-> budget_entries[k],
                    period_start |-> period_start,
                    period_end |-> add_months(period_start, 1)]
        /\ result' = budget_entries[k].next_occurrence
    /\ pc' = "walk_to_period"
    /\ UNCHANGED <<db, utcnow>>

\* one test of `while occ < period_start`, and the body when it holds
StepToPeriod ==
    /\ pc = "walk_to_period"
    /\ IF Before(result, call.period_start)
       THEN /\ result' = next_occurrence(result, call.entry.cadence)
            /\ pc' = pc
       ELSE /\ result' = result
            /\ pc' = "walk_in_period"
    /\ UNCHANGED <<db, utcnow, call>>

\* one test of `while period_start <= occ < period_end`, and the body when
\* it holds
StepInPeriod ==
    /\ pc = "walk_in_period"
    /\ IF NotAfter(call.period_start, result) /\ Before(result, call.period_end)
       THEN /\ result' = next_occurrence(result, call.entry.cadence)
            /\ pc' = pc
       ELSE /\ result' = result
            /\ pc' = "returned"
    /\ UNCHANGED <<db, utcnow, call>>

NextWalk == WalkStart \/ StepToPeriod \/ StepInPeriod \/ Return

\* the interpreter runs a started loop on
SpecWalk == InitWalk /\ [][NextWalk]_vars /\ WF_vars(NextWalk)

\* ------------------------------------------------------------------------
\* The occurrence walks of project_cashflow and get_upcoming_items side by
\* side, one loop iteration a step
\* ------------------------------------------------------------------------
\* `for entry in be_query.all(): occ = entry.next_occurrence; counter = 0`;
\* result holds the locals occ and counter and the items appended so far
UpcomingStart ==
    /\ pc = "idle"
    /\ \E k \in DOMAIN budget_entries, now \in RefTimes, days \in DaysArgs :
        /\ call' = [op |-> "walk_upcoming", entry |-> budget_entries[k],
                    now |-> now, cutoff |-> AddDays(now, days)]
        /\ result' = [occ |-> budget_entries[k].next_occurrence,
                      counter |-> 0, items |-> <<>>]
    /\ pc' = "walk_upcoming"
    /\ UNCHANGED <<db, utcnow>>

\* one test of `while occ <= cutoff and counter < 100`, and the body when it
\* holds
StepUpcoming ==
    /\ pc = "walk_upcoming"
    /\ IF NotAfter(result.occ, call.cutoff) /\ result.counter < WalkCap
       THEN /\ result' = WalkUpcomingFor(result, call.entry, call.now, call.cutoff, 1)
            /\ pc' = pc
       ELSE /\ result' = result
            /\ pc' = "returned"
    /\ UNCHANGED <<db, utcnow, call>>

NextOccurrences ==
    WalkStart \/ StepToPeriod \/ StepInPeriod \/ UpcomingStart \/ StepUpcoming \/ Return

SpecOccurrences == InitWalk /\ [][NextOccurrences]_vars

\* ------------------------------------------------------------------------
\* Consumers of get_disposable_income: the wishlist planner and the
\* dashboard snapshot
\* ------------------------------------------------------------------------
\* raise HTTPException(status_code=..., detail=...)
HTTPException(status_code, detail) == [status_code |-> status_code, detail |-> detail]

\* an exception no handler catches: the response is a 500
Unhandled(exception) == [status_code |-> 500, detail |-> exception]

\* datetime.MAXYEAR: datetime + timedelta raises OverflowError past it
MAXYEAR == 9999

Max(a, b) == IF a >= b THEN a ELSE b

\* math.ceil(a / b) for b > 0
Ceil(a, b) == 0 - ((0 - a) \div b)

\* monthly_disposable * SAVINGS_RATE_FACTOR; a rounded amount is a whole
\* number of cents, so its half is a whole number of units
Share(monthly_disposable) == monthly_disposable \div 2

\* the floor a hundred times too high
SavingsRateFlooredAtOne(monthly_disposable) ==
    Max(Share(monthly_disposable), Float(100))

\* savings_rate = max(monthly_disposable * SAVINGS_RATE_FACTOR, 0.01)
SavingsRate(monthly_disposable) == Max(Share(monthly_disposable), Float(1))

\* the case {"critical": 0, "high": 1, "medium": 2, "low": 3} of the queries
priority_order(priority) ==
    CASE priority = "critical" -> 0
      [] priority = "high"     -> 1
      [] priority = "medium"   -> 2
      [] priority = "low"      -> 3

\* ordered by creation time alone
OrderedByCreation(a, b) == a.created_at <= b.created_at

\* a may come before b under ORDER BY priority_order, created_at
Ordered(a, b) ==
    \/ priority_order(a.priority) < priority_order(b.priority)
    \/ /\ priority_order(a.priority) = priority_order(b.priority)
       /\ a.created_at <= b.created_at

\* the orders in which a query with that ORDER BY can return the rows: rows
\* with equal keys come in any order
InOrder(rows) ==
    LET n == Len(rows)
        perms == {f \in [1..n -> 1..n] : \A i, j \in 1..n : i # j => f[i] # f[j]}
    IN  {[i \in 1..n |-> rows[f[i]]] : f \in
            {g \in perms : \A i \in 1..(n - 1) : Ordered(rows[g[i]], rows[g[i + 1]])}}

\* filter(WishlistItem.user_id == current_user.id, is_purchased is false)
Unpurchased(items, user_id) ==
    SelectSeq(items, LAMBDA r : r.user_id = user_id /\ ~r.is_purchased)

\* the item's own months instead of the running total
PlanItemsOwnMonths(items, savings_rate, now, cumulative_months) ==
    [k \in DOMAIN items |->
        LET months_needed == Ceil(Float(items[k].estimated_cost), savings_rate)
        IN  [item_id |-> items[k].id,
             name |-> items[k].name,
             estimated_cost |-> Float(items[k].estimated_cost),
             estimated_purchase_date |-> IsoDate(AddDays(now, months_needed * 30)),
             cumulative_months |-> months_needed]]

RECURSIVE PlanItems(_, _, _, _)
\* the loop `for item in items` of get_wishlist_plan
PlanItems(items, savings_rate, now, cumulative_months) ==
    IF items = <<>> THEN <<>>
    ELSE LET item == Head(items)
             months_needed == Ceil(Float(item.estimated_cost), savings_rate)
             cumulative == cumulative_months + months_needed
             purchase_date == AddDays(now, cumulative * 30)
         IN  << [item_id |-> item.id,
                 name |-> item.name,
                 estimated_cost |-> Float(item.estimated_cost),
                 estimated_purchase_date |-> IsoDate(purchase_date),
                 cumulative_months |-> cumulative] >>
             \o PlanItems(Tail(items), savings_rate, now, cumulative)

\* get_wishlist_plan, for the order `items` in which the query returned the
\* rows; a purchase_date past date.max is an OverflowError
get_wishlist_plan(entries, items, user_id, entity_id, now) ==
    LET disposable_data == get_disposable_income(entries, user_id, entity_id)
        monthly_disposable == disposable_data.monthly_disposable
        savings_rate == SavingsRate(monthly_disposable)
        plan == PlanItems(items, savings_rate, now, 0)
    IN  IF \E k \in DOMAIN plan : plan[k].estimated_purchase_date[1] > MAXYEAR
        THEN Unhandled("OverflowError")
        ELSE [monthly_disposable |-> monthly_disposable,
              savings_rate |-> savings_rate,
              items |-> plan]

\* filter(WishlistItem.id == item_id, user_id == current_user.id).first()
Find(items, item_id, user_id) ==
    SelectSeq(items, LAMBDA r : r.id = item_id /\ r.user_id = user_id)

\* months_needed when there is nothing to save from
NeverMonths == 9999

get_readiness(entries, items, item_id, user_id, entity_id, now) ==
    LET found == Find(items, item_id, user_id)
        item == found[1]
        monthly_disposable ==
            get_disposable_income(entries, user_id, entity_id).monthly_disposable
        savings_rate == Share(monthly_disposable)
        months_needed == IF savings_rate <= 0 THEN NeverMonths
                         ELSE Ceil(Float(item.estimated_cost), savings_rate)
        affordable_now == IF savings_rate <= 0 THEN FALSE
                          ELSE Float(item.estimated_cost) <= monthly_disposable
        estimated_date == IsoDate(AddDays(now, months_needed * 30))
    IN  IF found = <<>> THEN HTTPException(404, "Wishlist item not found")
        ELSE IF estimated_date[1] > MAXYEAR THEN Unhandled("OverflowError")
        ELSE [item_id |-> item.id,
              name |-> item.name,
              estimated_cost |-> Float(item.estimated_cost),
              monthly_disposable |-> monthly_disposable,
              savings_rate |-> savings_rate,
              months_needed |-> months_needed,
              estimated_purchase_date |-> estimated_date,
              affordable_now |-> affordable_now]

\* the arguments get_snapshot gives the forecasts, and its .limit(3)
SnapshotDays == 30
SnapshotMonths == 3
SnapshotItems == 3

\* the loop `for item in wishlist_items` of get_snapshot
NextUp(items, savings_rate, now) ==
    [k \in DOMAIN items |->
        LET months_needed == Ceil(Float(items[k].estimated_cost), savings_rate)
        IN  [id |-> items[k].id,
             name |-> items[k].name,
             cost |-> Float(items[k].estimated_cost),
             priority |-> items[k].priority,
             affordable_by |-> IsoDate(AddDays(now, months_needed * 30))]]

\* get_snapshot, for the order `items` in which the wishlist query returned
\* the rows before its limit; the goals of the allocations table, which the
\* handler only reads, are left out
get_snapshot(accts, entries, txns, items, user_id, entity_id, now) ==
    LET active == get_account_balances(accts, user_id, entity_id)
        disposable_data == get_disposable_income(entries, user_id, entity_id)
        monthly_disposable == disposable_data.monthly_disposable
        savings_rate == SavingsRate(monthly_disposable)
        wishlist_next_up ==
            NextUp(SubSeq(items, 1, Min(SnapshotItems, Len(items))), savings_rate, now)
    IN  IF \E k \in DOMAIN wishlist_next_up :
               wishlist_next_up[k].affordable_by[1] > MAXYEAR
        THEN Unhandled("OverflowError")
        ELSE [balances |->
                 [total |-> round2(SumBalances(active)),
                  by_account |-> [k \in DOMAIN active |->
                                     [id |-> active[k].id,
                                      balance |-> Float(active[k].balance)]]],
              upcoming_this_month |->
                 get_upcoming_items(entries, txns, user_id, entity_id,
                                    SnapshotDays, now),
              monthly_summary |-> disposable_data,
              forecast_next_3_months |->
                 project_cashflow(accts, entries, txns, user_id, entity_id,
                                  SnapshotMonths, now),
              goals_progress |-> <<>>,
              wishlist_next_up |-> wishlist_next_up]

\* ------------------------------------------------------------------------
\* Rows and requests of the wishlist
\* ------------------------------------------------------------------------
WishlistItem(id, user_id, entity_id, name, estimated_cost, priority, is_purchased, created_at) ==
    [id |-> id, user_id |-> user_id, entity_id |-> entity_id, name |-> name,
     estimated_cost |-> estimated_cost, priority |-> priority,
     is_purchased |-> is_purchased, created_at |-> created_at]

\* costs in cents: one that a savings rate of 0.01 puts past date.max and
\* one that it does not, one below every savings rate; two items of equal
\* priority created at the same instant, and a newer item of higher priority
WishlistItemRows ==
    << WishlistItem(1, 1, 1, "laptop", 120000, "high", FALSE, 3),
       WishlistItem(2, 1, NoEntity, "book", 2500, "critical", FALSE, 5),
       WishlistItem(3, 1, 2, "bike", 45000, "high", FALSE, 3),
       WishlistItem(4, 1, 1, "phone", 80000, "low", TRUE, 1),
       WishlistItem(5, 2, 1, "camera", 60000, "critical", FALSE, 2),
       WishlistItem(6, 1, 1, "pen", 1, "medium", FALSE, 1),
       WishlistItem(7, 1, 1, "desk", 30000, "low", FALSE, 4) >>

\* every account and transaction, and at most MaxRows budget entries and
\* wishlist items together
InitWishlist ==
    /\ \E ie \in SUBSET Ids(BudgetEntryRows), iw \in SUBSET Ids(WishlistItemRows) :
        /\ Cardinality(ie) + Cardinality(iw) <= MaxRows
        /\ budget_entries = Table(BudgetEntryRows, ie)
        /\ wishlist_items = Table(WishlistItemRows, iw)
    /\ accounts = AccountRows
    /\ transactions = TransactionRows
    /\ pc = "idle"
    /\ call = NoCall
    /\ result = <<>>
    /\ entities = <<>>
    /\ entity_memberships = <<>>
    /\ users = <<>>
    /\ email_tokens = <<>>
    /\ serial = NoSerial
    /\ utcnow = 0

GetWishlistPlan ==
    /\ pc = "idle"
    /\ \E user_id \in Callers, entity_id \in EntityArgs, now \in RefTimes :
        \E items \in InOrder(Unpurchased(wishlist_items, user_id)) :
            /\ result' = get_wishlist_plan(budget_entries, items,
                                           user_id, entity_id, now)
            /\ call' = [op |-> "get_wishlist_plan", user_id |-> user_id,
                        entity_id |-> entity_id, now |-> now, items |-> items]
    /\ pc' = "returned"
    /\ UNCHANGED <<db, utcnow>>

GetReadiness ==
    /\ pc = "idle"
    /\ \E user_id \in Callers, entity_id \in EntityArgs, now \in RefTimes,
          item_id \in Ids(WishlistItemRows) :
        /\ result' = get_readiness(budget_entries, wishlist_items, item_id,
                                   user_id, entity_id, now)
        /\ call' = [op |-> "get_readiness", user_id |-> user_id,
                    entity_id |-> entity_id, now |-> now, item_id |-> item_id]
    /\ pc' = "returned"
    /\ UNCHANGED <<db, utcnow>>

GetSnapshot ==
    /\ pc = "idle"
    /\ \E user_id \in Callers, entity_id \in EntityArgs, now \in RefTimes :
        \E items \in InOrder(Unpurchased(wishlist_items, user_id)) :
            /\ result' = get_snapshot(accounts, budget_entries, transactions,
                                      items, user_id, entity_id, now)
            /\ call' = [op |-> "get_snapshot", user_id |-> user_id,
                        entity_id |-> entity_id, now |-> now, items |-> items]
    /\ pc' = "returned"
    /\ UNCHANGED <<db, utcnow>>

NextWishlist == GetWishlistPlan \/ GetReadiness \/ GetSnapshot \/ Return

SpecWishlist == InitWishlist /\ [][NextWishlist]_vars

\* ------------------------------------------------------------------------
\* Forecast requests in flight together: every request has its own session
\* and its own locals; a step is the work between two of its queries.  pc,
\* call and result hold one value per request, call[r] the locals too.
\* ------------------------------------------------------------------------
Requests == {1, 2}

NoLocals == [op |-> "none", user_id |-> 0, entity_id |-> NoEntity,
             months |-> 0, days |-> 0, reference |-> NoTime,
             accounts |-> <<>>, budget_entries |-> <<>>, unposted_txns |-> <<>>]

\* the tables hold every row of the catalogue
InitConcurrent ==
    /\ accounts = AccountRows
    /\ budget_entries = BudgetEntryRows
    /\ transactions = TransactionRows
    /\ pc = [r \in Requests |-> "idle"]
    /\ call = [r \in Requests |-> NoLocals]
    /\ result = [r \in Requests |-> <<>>]
    /\ wishlist_items = <<>>
    /\ entities = <<>>
    /\ entity_memberships = <<>>
    /\ users = <<>>
    /\ email_tokens = <<>>
    /\ serial = NoSerial
    /\ utcnow = 0

\* a request arrives: the router calls the service with its arguments
Begin ==
    \E r \in Requests :
        /\ pc[r] = "idle"
        /\ \E user_id \in Callers, entity_id \in EntityArgs, reference \in RefTimes :
            \/ /\ \E months \in 1..MaxMonths :
                    call' = [call EXCEPT ![r] =
                                [NoLocals EXCEPT !.op = "project_cashflow",
                                    !.user_id = user_id, !.entity_id = entity_id,
                                    !.months = months, !.reference = reference]]
               /\ pc' = [pc EXCEPT ![r] = "query_accounts"]
            \/ /\ \E days \in DaysArgs :
                    call' = [call EXCEPT ![r] =
                                [NoLocals EXCEPT !.op = "get_upcoming_items",
                                    !.user_id = user_id, !.entity_id = entity_id,
                                    !.days = days, !.reference = reference]]
               /\ pc' = [pc EXCEPT ![r] = "query_budget_entries"]
            \/ /\ call' = [call EXCEPT ![r] =
                              [NoLocals EXCEPT !.op = "get_disposable_income",
                                  !.user_id = user_id, !.entity_id = entity_id]]
               /\ pc' = [pc EXCEPT ![r] = "query_budget_entries"]
        /\ UNCHANGED <<db, utcnow, result>>

\* accounts = get_account_balances(db, user_id, entity_id)
QueryAccounts ==
    \E r \in Requests :
        /\ pc[r] = "query_accounts"
        /\ call' = [call EXCEPT ![r].accounts =
                       get_account_balances(accounts, call[r].user_id,
                                            call[r].entity_id)]
        /\ pc' = [pc EXCEPT ![r] = "query_budget_entries"]
        /\ UNCHANGED <<db, utcnow, result>>

\* be_query.all()
QueryBudgetEntries ==
    \E r \in Requests :
        /\ pc[r] = "query_budget_entries"
        /\ call' = [call EXCEPT ![r].budget_entries =
                       ActiveEntries(budget_entries, call[r].user_id,
                                     call[r].entity_id)]
        /\ pc' = [pc EXCEPT ![r] =
                     IF call[r].op = "get_disposable_income"
                     THEN "compute" ELSE "query_transactions"]
        /\ UNCHANGED <<db, utcnow, result>>

\* txn_query.all(): of project_cashflow every unposted transaction, of
\* get_upcoming_items those of the window
QueryTransactions ==
    \E r \in Requests :
        /\ pc[r] = "query_transactions"
        /\ call' = [call EXCEPT ![r].unposted_txns =
                       IF call[r].op = "project_cashflow"
                       THEN UnpostedTxns(transactions, call[r].user_id,
                                         call[r].entity_id)
                       ELSE UpcomingTxns(transactions, call[r].user_id,
                                         call[r].entity_id, call[r].reference,
                                         AddDays(call[r].reference, call[r].days))]
        /\ pc' = [pc EXCEPT ![r] = "compute"]
        /\ UNCHANGED <<db, utcnow, result>>

\* the loops over the fetched rows, up to the return
Computed(locals) ==
    CASE locals.op = "project_cashflow" ->
            Timeline(locals.months, StartOfMonth(locals.reference),
                     SumBalances(locals.accounts), locals.budget_entries,
                     locals.unposted_txns)
      [] locals.op = "get_upcoming_items" ->
            SortItems(EntryItems(locals.budget_entries, locals.reference,
                                 AddDays(locals.reference, locals.days))
                      \o TxnItems(locals.unposted_txns), <<>>)
      [] locals.op = "get_disposable_income" ->
            LET tot == MonthlyTotals(locals.budget_entries, <<0, 0>>)
            IN  [monthly_income     |-> round2(tot[1]),
                 monthly_expenses   |-> round2(tot[2]),
                 monthly_disposable |-> round2(tot[1] - tot[2])]

\* the walked occurrence of project_cashflow stored in the row and committed
ComputeStoresWalk ==
    \E r \in Requests :
        /\ pc[r] = "compute"
        /\ result' = [result EXCEPT ![r] = Computed(call[r])]
        /\ pc' = [pc EXCEPT ![r] = "returned"]
        /\ budget_entries' =
              IF call[r].op # "project_cashflow" THEN budget_entries
              ELSE [k \in DOMAIN budget_entries |->
                      IF \E j \in DOMAIN call[r].budget_entries :
                             call[r].budget_entries[j].id = budget_entries[k].id
                      THEN [budget_entries[k] EXCEPT !.next_occurrence =
                               WalkToPeriod(@, budget_entries[k].cadence,
                                            StartOfMonth(call[r].reference))]
                      ELSE budget_entries[k]]
        /\ UNCHANGED <<accounts, transactions, wishlist_items, entities,
                       entity_memberships, users, email_tokens, serial, utcnow,
                       call>>

Compute ==
    \E r \in Requests :
        /\ pc[r] = "compute"
        /\ result' = [result EXCEPT ![r] = Computed(call[r])]
        /\ pc' = [pc EXCEPT ![r] = "returned"]
        /\ UNCHANGED <<db, utcnow, call>>

\* the router hands the value to the client
Respond ==
    \E r \in Requests :
        /\ pc[r] = "returned"
        /\ pc' = [pc EXCEPT ![r] = "idle"]
        /\ call' = [call EXCEPT ![r] = NoLocals]
        /\ result' = [result EXCEPT ![r] = <<>>]
        /\ UNCHANGED <<db, utcnow>>

NextConcurrent ==
    \/ Begin
    \/ QueryAccounts
    \/ QueryBudgetEntries
    \/ QueryTransactions
    \/ Compute
    \/ Respond

SpecConcurrent == InitConcurrent /\ [][NextConcurrent]_vars

\* ------------------------------------------------------------------------
\* Entities and their memberships (routers/entities.py), a handler a step
\* ------------------------------------------------------------------------
\* most entities ever created, and most membership rows ever inserted
MaxEntities == 2
MaxMemberships == 3

\* value of a timestamp column that is NULL
Never == 0 - 1

User(id, email, password_hash, is_verified, is_active) ==
    [id |-> id, email |-> email, password_hash |-> password_hash,
     is_verified |-> is_verified, is_active |-> is_active]

\* the registered users
UserRows ==
    << User(1, "ana@example.com", "hash-1", TRUE, TRUE),
       User(2, "ben@example.com", "hash-2", TRUE, TRUE) >>

UserIds == Ids(UserRows)
\* a user id no row of users has
NoSuchUser == 9

Entity(id, name, is_active, updated_at) ==
    [id |-> id, name |-> name, is_active |-> is_active, updated_at |-> updated_at]

EntityMembership(id, user_id, entity_id, role) ==
    [id |-> id, user_id |-> user_id, entity_id |-> entity_id, role |-> role]

MemberRole == {"owner", "member"}

\* the payloads of EntityUpdate, each the fields the client set: a new name
\* for an entity made active again
EntityUpdates == {[name |-> "renamed", is_active |-> TRUE]}

\* db.query(Entity).filter(Entity.id == entity_id).first()
EntityById(ents, entity_id) == SelectSeq(ents, LAMBDA e : e.id = entity_id)

\* the membership of the user in the entity, whatever its role
MembershipOf(mems, entity_id, user_id) ==
    SelectSeq(mems, LAMBDA m : m.entity_id = entity_id /\ m.user_id = user_id)

\* the role filter left out
MembershipOfAnyRole(mems, entity_id, user_id) == MembershipOf(mems, entity_id, user_id)

\* filter(entity_id == ..., user_id == current_user.id, role == OWNER)
OwnerMembership(mems, entity_id, user_id) ==
    SelectSeq(mems, LAMBDA m : m.entity_id = entity_id /\ m.user_id = user_id
                               /\ m.role = "owner")

\* the outcome of a handler: its response and the rows it leaves committed
Outcome(response, ents, mems) ==
    [response |-> response, entities |-> ents, entity_memberships |-> mems]

\* the creator made a plain member
CreateEntityAsMember(ents, mems, ids, current_user, name) ==
    LET entity == Entity(ids.entities + 1, name, TRUE, Never)
        membership == EntityMembership(ids.entity_memberships + 1, current_user,
                                       entity.id, "member")
    IN  Outcome([status_code |-> 201, entity |-> entity,
                 memberships |-> <<membership>>],
                Append(ents, entity), Append(mems, membership))

\* create_entity; ids are the sequences before the inserts
create_entity(ents, mems, ids, current_user, name) ==
    LET entity == Entity(ids.entities + 1, name, TRUE, Never)
        membership == EntityMembership(ids.entity_memberships + 1, current_user,
                                       entity.id, "owner")
    IN  Outcome([status_code |-> 201, entity |-> entity,
                 memberships |-> <<membership>>],
                Append(ents, entity), Append(mems, membership))

\* for field, value in payload.dict(exclude_unset=True).items(): setattr
SetFields(row, payload) ==
    [f \in DOMAIN row |-> IF f \in DOMAIN payload THEN payload[f] ELSE row[f]]

update_entity(ents, mems, current_user, entity_id, payload, now) ==
    IF EntityById(ents, entity_id) = <<>>
    THEN Outcome(HTTPException(404, "Entity not found"), ents, mems)
    ELSE IF OwnerMembership(mems, entity_id, current_user) = <<>>
    THEN Outcome(HTTPException(403, "Only owners can update an entity"), ents, mems)
    ELSE LET updated == [k \in DOMAIN ents |->
                            IF ents[k].id = entity_id
                            THEN [SetFields(ents[k], payload) EXCEPT !.updated_at = now]
                            ELSE ents[k]]
         IN  Outcome([status_code |-> 200, entity |-> EntityById(updated, entity_id)[1]],
                     updated, mems)

\* the row and its memberships deleted
DeleteEntityHard(ents, mems, current_user, entity_id, now) ==
    IF EntityById(ents, entity_id) = <<>>
    THEN Outcome(HTTPException(404, "Entity not found"), ents, mems)
    ELSE IF OwnerMembership(mems, entity_id, current_user) = <<>>
    THEN Outcome(HTTPException(403, "Only owners can delete an entity"), ents, mems)
    ELSE Outcome([status_code |-> 204],
                 SelectSeq(ents, LAMBDA e : e.id # entity_id),
                 SelectSeq(mems, LAMBDA m : m.entity_id # entity_id))

delete_entity(ents, mems, current_user, entity_id, now) ==
    IF EntityById(ents, entity_id) = <<>>
    THEN Outcome(HTTPException(404, "Entity not found"), ents, mems)
    ELSE IF OwnerMembership(mems, entity_id, current_user) = <<>>
    THEN Outcome(HTTPException(403, "Only owners can delete an entity"), ents, mems)
    ELSE Outcome([status_code |-> 204],
                 [k \in DOMAIN ents |->
                     IF ents[k].id = entity_id
                     THEN [ents[k] EXCEPT !.is_active = FALSE, !.updated_at = now]
                     ELSE ents[k]],
                 mems)

\* the checks of add_member before its insert: the error they raise, or
\* none
AddMemberChecks(ents, mems, current_user, entity_id, payload) ==
    IF EntityById(ents, entity_id) = <<>>
    THEN <<HTTPException(404, "Entity not found")>>
    ELSE IF OwnerMembership(mems, entity_id, current_user) = <<>>
    THEN <<HTTPException(403, "Only owners can add members")>>
    ELSE IF MembershipOf(mems, entity_id, payload.user_id) # <<>>
    THEN <<HTTPException(400, "User is already a member of this entity")>>
    ELSE <<>>

\* db.add(new_membership); db.commit(): the foreign keys to users and
\* entities are the only constraints of the table
AddMemberInsert(ents, mems, ids, usrs, entity_id, payload) ==
    LET new_membership == EntityMembership(ids.entity_memberships + 1,
                                           payload.user_id, entity_id, payload.role)
    IN  IF payload.user_id \notin Ids(usrs) \/ EntityById(ents, entity_id) = <<>>
        THEN Outcome(Unhandled("IntegrityError"), ents, mems)
        ELSE Outcome([status_code |-> 201, membership |-> new_membership],
                     ents, Append(mems, new_membership))

add_member(ents, mems, ids, usrs, current_user, entity_id, payload) ==
    LET raised == AddMemberChecks(ents, mems, current_user, entity_id, payload)
    IN  IF raised # <<>> THEN Outcome(raised[1], ents, mems)
        ELSE AddMemberInsert(ents, mems, ids, usrs, entity_id, payload)

\* remove_member; target is the position of the row its second query
\* returned first, 0 when it returned none
remove_member(ents, mems, current_user, entity_id, target_user_id, target) ==
    IF OwnerMembership(mems, entity_id, current_user) = <<>>
    THEN Outcome(HTTPException(403, "Only owners can remove members"), ents, mems)
    ELSE IF target = 0
    THEN Outcome(HTTPException(404, "Member not found"), ents, mems)
    ELSE Outcome([status_code |-> 204], ents,
                 SubSeq(mems, 1, target - 1) \o SubSeq(mems, target + 1, Len(mems)))

\* the positions of the rows `.first()` can return: any row that matches,
\* or 0 when none does
FirstOf(mems, entity_id, user_id) ==
    LET matches == {k \in DOMAIN mems : mems[k].entity_id = entity_id
                                         /\ mems[k].user_id = user_id}
    IN  IF matches = {} THEN {0} ELSE matches

\* entity ids of the requests: every id the sequence can give, and the next
EntityIdArgs == 1..(MaxEntities + 1)

InitEntities ==
    /\ accounts = <<>>
    /\ budget_entries = <<>>
    /\ transactions = <<>>
    /\ pc = "idle"
    /\ call = NoCall
    /\ result = <<>>
    /\ wishlist_items = <<>>
    /\ entities = <<>>
    /\ entity_memberships = <<>>
    /\ users = UserRows
    /\ email_tokens = <<>>
    /\ serial = NoSerial
    /\ utcnow = 0

\* the outcome committed, the response pending
Commit(outcome, inserted_entities, inserted_memberships) ==
    /\ result' = outcome.response
    /\ entities' = outcome.entities
    /\ entity_memberships' = outcome.entity_memberships
    /\ serial' = [serial EXCEPT
                     !.entities = @ + inserted_entities,
                     !.entity_memberships = @ + inserted_memberships]
    /\ pc' = "returned"
    /\ UNCHANGED <<accounts, budget_entries, transactions, wishlist_items,
                   users, email_tokens, utcnow>>

CreateEntity ==
    /\ pc = "idle"
    /\ serial.entities < MaxEntities
    /\ serial.entity_memberships < MaxMemberships
    /\ \E current_user \in UserIds, name \in {"home"} :
        /\ call' = [op |-> "create_entity", current_user |-> current_user,
                    name |-> name]
        /\ Commit(create_entity(entities, entity_memberships, serial,
                                current_user, name), 1, 1)

UpdateEntity ==
    /\ pc = "idle"
    /\ \E current_user \in UserIds, entity_id \in EntityIdArgs,
          payload \in EntityUpdates :
        /\ call' = [op |-> "update_entity", current_user |-> current_user,
                    entity_id |-> entity_id, payload |-> payload]
        /\ Commit(update_entity(entities, entity_memberships, current_user,
                                entity_id, payload, utcnow), 0, 0)

DeleteEntity ==
    /\ pc = "idle"
    /\ \E current_user \in UserIds, entity_id \in EntityIdArgs :
        /\ call' = [op |-> "delete_entity", current_user |-> current_user,
                    entity_id |-> entity_id]
        /\ Commit(delete_entity(entities, entity_memberships, current_user,
                                entity_id, utcnow), 0, 0)

AddMember ==
    /\ pc = "idle"
    /\ serial.entity_memberships < MaxMemberships
    /\ \E current_user \in UserIds, entity_id \in EntityIdArgs,
          user_id \in UserIds \cup {NoSuchUser}, role \in MemberRole :
        LET payload == [user_id |-> user_id, role |-> role]
            outcome == add_member(entities, entity_memberships, serial, users,
                                  current_user, entity_id, payload)
        IN  /\ call' = [op |-> "add_member", current_user |-> current_user,
                        entity_id |-> entity_id, payload |-> payload]
            /\ Commit(outcome, 0,
                      IF outcome.response.status_code \in {201, 500} THEN 1 ELSE 0)

RemoveMember ==
    /\ pc = "idle"
    /\ \E current_user \in UserIds, entity_id \in EntityIdArgs,
          target_user_id \in UserIds :
        \E target \in FirstOf(entity_memberships, entity_id, target_user_id) :
            /\ call' = [op |-> "remove_member", current_user |-> current_user,
                        entity_id |-> entity_id,
                        target_user_id |-> target_user_id]
            /\ Commit(remove_member(entities, entity_memberships, current_user,
                                    entity_id, target_user_id, target), 0, 0)

NextEntities ==
    \/ CreateEntity
    \/ UpdateEntity
    \/ DeleteEntity
    \/ AddMember
    \/ RemoveMember
    \/ Return

SpecEntities == InitEntities /\ [][NextEntities]_vars

\* ------------------------------------------------------------------------
\* Concurrent membership requests: add_member in its two statements, the
\* query for an existing membership and the insert, each on the committed
\* rows of the moment
\* ------------------------------------------------------------------------
InitMembers ==
    /\ accounts = <<>>
    /\ budget_entries = <<>>
    /\ transactions = <<>>
    /\ pc = [r \in Requests |-> "idle"]
    /\ call = [r \in Requests |-> NoLocals]
    /\ result = [r \in Requests |-> <<>>]
    /\ wishlist_items = <<>>
    /\ entities = <<>>
    /\ entity_memberships = <<>>
    /\ users = UserRows
    /\ email_tokens = <<>>
    /\ serial = NoSerial
    /\ utcnow = 0

\* the outcome of request r committed, its response pending
CommitOf(r, outcome, inserted_entities, inserted_memberships) ==
    /\ result' = [result EXCEPT ![r] = outcome.response]
    /\ entities' = outcome.entities
    /\ entity_memberships' = outcome.entity_memberships
    /\ serial' = [serial EXCEPT
                     !.entities = @ + inserted_entities,
                     !.entity_memberships = @ + inserted_memberships]
    /\ pc' = [pc EXCEPT ![r] = "returned"]
    /\ UNCHANGED <<accounts, budget_entries, transactions, wishlist_items,
                   users, email_tokens, utcnow>>

\* create_entity: the entity and the owner's membership in one commit
MemberCreateEntity ==
    \E r \in Requests :
        /\ pc[r] = "idle"
        /\ serial.entities < MaxEntities
        /\ serial.entity_memberships + Cardinality({q \in Requests : pc[q] = "checked"}) < MaxMemberships
        /\ \E current_user \in UserIds, name \in {"home"} :
            /\ call' = [call EXCEPT ![r] =
                           [op |-> "create_entity", current_user |-> current_user,
                            name |-> name]]
            /\ CommitOf(r, create_entity(entities, entity_memberships, serial,
                                         current_user, name), 1, 1)

\* add_member up to `if existing: raise`: the entity, the owner and the
\* existing membership are queried; an error is the response, otherwise the
\* handler goes on to build the row
AddMemberCheck ==
    \E r \in Requests :
        /\ pc[r] = "idle"
        /\ serial.entity_memberships + Cardinality({q \in Requests : pc[q] = "checked"}) < MaxMemberships
        /\ \E current_user \in UserIds, entity_id \in EntityIdArgs,
              user_id \in UserIds, role \in MemberRole :
            LET payload == [user_id |-> user_id, role |-> role]
                raised == AddMemberChecks(entities, entity_memberships,
                                          current_user, entity_id, payload)
            IN  /\ call' = [call EXCEPT ![r] =
                               [op |-> "add_member", current_user |-> current_user,
                                entity_id |-> entity_id, payload |-> payload]]
                /\ IF raised # <<>>
                   THEN /\ result' = [result EXCEPT ![r] = raised[1]]
                        /\ pc' = [pc EXCEPT ![r] = "returned"]
                   ELSE /\ result' = result
                        /\ pc' = [pc EXCEPT ![r] = "checked"]
        /\ UNCHANGED <<db, utcnow>>

\* db.add(new_membership); db.commit(); db.refresh(new_membership)
AddMemberCommit ==
    \E r \in Requests :
        /\ pc[r] = "checked"
        /\ LET outcome == AddMemberInsert(entities, entity_memberships, serial,
                                          users, call[r].entity_id, call[r].payload)
           IN  CommitOf(r, outcome, 0,
                        IF outcome.response.status_code \in {201, 500} THEN 1 ELSE 0)
        /\ UNCHANGED call

\* remove_member: the row its query returned first deleted
MemberRemove ==
    \E r \in Requests :
        /\ pc[r] = "idle"
        /\ \E current_user \in UserIds, entity_id \in EntityIdArgs,
              target_user_id \in UserIds :
            \E target \in FirstOf(entity_memberships, entity_id, target_user_id) :
                /\ call' = [call EXCEPT ![r] =
                               [op |-> "remove_member", current_user |-> current_user,
                                entity_id |-> entity_id,
                                target_user_id |-> target_user_id]]
                /\ CommitOf(r, remove_member(entities, entity_memberships,
                                             current_user, entity_id,
                                             target_user_id, target), 0, 0)

NextMembers ==
    \/ MemberCreateEntity
    \/ AddMemberCheck
    \/ AddMemberCommit
    \/ MemberRemove
    \/ Respond

SpecMembers == InitMembers /\ [][NextMembers]_vars

\* ------------------------------------------------------------------------
\* Email tokens (routers/auth.py), a handler a step; the clock counts hours
\* ------------------------------------------------------------------------
\* largest number of rows of users
MaxUsers == 3
\* largest number of tokens issued
MaxTokens == 3
\* latest hour of the clock
MaxClock == 3

\* settings.EMAIL_VERIFICATION_EXPIRE_HOURS, settings.PASSWORD_RESET_EXPIRE_HOURS
EMAIL_VERIFICATION_EXPIRE_HOURS == 2
PASSWORD_RESET_EXPIRE_HOURS == 1

EmailTokenType == {"verify_email", "reset_password"}

EmailToken(id, user_id, token, token_type, expires_at) ==
    [id |-> id, user_id |-> user_id, token |-> token, token_type |-> token_type,
     expires_at |-> expires_at]

\* a row of users with the time of its last update
UserRow(id, email, password_hash, is_verified, is_active, updated_at) ==
    [id |-> id, email |-> email, password_hash |-> password_hash,
     is_verified |-> is_verified, is_active |-> is_active,
     updated_at |-> updated_at]

\* get_password_hash: a digest that is not the password
get_password_hash(password) == <<"hash", password>>

\* the addresses of the requests
Emails == {"cy@example.com", "ana@example.com", "nobody@example.com"}

\* the outcome of a handler: its response and the rows it leaves committed
AuthOutcome(response, usrs, tokens) ==
    [response |-> response, users |-> usrs, email_tokens |-> tokens]

Message(text) == [status_code |-> 200, message |-> text]

\* db.query(User).filter(User.email == email).first(); email is unique
UserByEmail(usrs, email) == SelectSeq(usrs, LAMBDA u : u.email = email)

\* the older tokens of the user kept
CreateEmailTokenKeepsOld(tokens, ids, user_id, token_type, expire_hours, now) ==
    Append(tokens, EmailToken(ids.email_tokens + 1, user_id, ids.email_tokens + 1,
                              token_type, now + expire_hours))

\* _create_email_token: the tokens of the user and type deleted, a token
\* with a value never issued before stored; ids are the sequences before
\* the insert, and the value of the token is the number of its issue
create_email_token(tokens, ids, user_id, token_type, expire_hours, now) ==
    Append(SelectSeq(tokens, LAMBDA t : ~(t.user_id = user_id
                                          /\ t.token_type = token_type)),
           EmailToken(ids.email_tokens + 1, user_id, ids.email_tokens + 1,
                      token_type, now + expire_hours))

register(usrs, tokens, ids, email, password, now) ==
    IF UserByEmail(usrs, email) # <<>>
    THEN AuthOutcome(HTTPException(400, "Email already registered"), usrs, tokens)
    ELSE LET db_user == UserRow(ids.users + 1, email, get_password_hash(password),
                                 FALSE, TRUE, now)
         IN  AuthOutcome([status_code |-> 200, user |-> db_user],
                         Append(usrs, db_user),
                         create_email_token(tokens, ids, db_user.id, "verify_email",
                                            EMAIL_VERIFICATION_EXPIRE_HOURS, now))

resend_verification(usrs, tokens, ids, email, now) ==
    LET found == UserByEmail(usrs, email)
    IN  IF found = <<>>
        THEN AuthOutcome(Message("If that account exists, a verification email has been sent."),
                         usrs, tokens)
        ELSE IF found[1].is_verified
        THEN AuthOutcome(Message("Email is already verified."), usrs, tokens)
        ELSE AuthOutcome(Message("If that account exists, a verification email has been sent."),
                         usrs,
                         create_email_token(tokens, ids, found[1].id, "verify_email",
                                            EMAIL_VERIFICATION_EXPIRE_HOURS, now))

forgot_password(usrs, tokens, ids, email, now) ==
    LET found == UserByEmail(usrs, email)
    IN  IF found = <<>> \/ ~found[1].is_active
        THEN AuthOutcome(Message("If that account exists, a reset link has been sent."),
                         usrs, tokens)
        ELSE AuthOutcome(Message("If that account exists, a reset link has been sent."),
                         usrs,
                         create_email_token(tokens, ids, found[1].id, "reset_password",
                                            PASSWORD_RESET_EXPIRE_HOURS, now))

\* filter(EmailToken.token == payload.token, EmailToken.token_type == ...)
TokenRows(tokens, token, token_type) ==
    SelectSeq(tokens, LAMBDA t : t.token = token /\ t.token_type = token_type)

\* user.<field> = ...; user.updated_at = utcnow(); the tokens of the user
\* and type deleted
Redeem(usrs, tokens, row, changes, now, text) ==
    AuthOutcome(Message(text),
                [k \in DOMAIN usrs |->
                    IF usrs[k].id = row.user_id
                    THEN [SetFields(usrs[k], changes) EXCEPT !.updated_at = now]
                    ELSE usrs[k]],
                SelectSeq(tokens, LAMBDA t : ~(t.user_id = row.user_id
                                               /\ t.token_type = row.token_type)))

\* the common course of verify_email and reset_password
UseToken(usrs, tokens, token, token_type, now, changes, text) ==
    LET found == TokenRows(tokens, token, token_type)
    IN  IF found = <<>>
        THEN AuthOutcome(HTTPException(400, "Invalid or expired token"), usrs, tokens)
        ELSE IF found[1].expires_at < now
        THEN AuthOutcome(HTTPException(400, "Token has expired"), usrs,
                         SelectSeq(tokens, LAMBDA t : t.id # found[1].id))
        ELSE Redeem(usrs, tokens, found[1], changes, now, text)

verify_email(usrs, tokens, token, now) ==
    UseToken(usrs, tokens, token, "verify_email", now,
             [is_verified |-> TRUE],
             "Email verified successfully")

reset_password(usrs, tokens, token, new_password, now) ==
    UseToken(usrs, tokens, token, "reset_password", now,
             [password_hash |-> get_password_hash(new_password)],
             "Password updated successfully.")

\* one account exists, verified and deactivated
InitAuth ==
    /\ accounts = <<>>
    /\ budget_entries = <<>>
    /\ transactions = <<>>
    /\ pc = "idle"
    /\ call = NoCall
    /\ result = <<>>
    /\ wishlist_items = <<>>
    /\ entities = <<>>
    /\ entity_memberships = <<>>
    /\ users = << UserRow(1, "cy@example.com", get_password_hash("0ldpass!"),
                           TRUE, FALSE, 0) >>
    /\ email_tokens = <<>>
    /\ serial = [NoSerial EXCEPT !.users = 1]
    /\ utcnow = 0

\* the outcome committed, the response pending
CommitAuth(outcome) ==
    /\ result' = outcome.response
    /\ users' = outcome.users
    /\ email_tokens' = outcome.email_tokens
    /\ serial' = [serial EXCEPT
                     !.users = @ + Len(outcome.users) - Len(users),
                     !.email_tokens =
                         IF \E k \in DOMAIN outcome.email_tokens :
                                outcome.email_tokens[k].id > @
                         THEN @ + 1 ELSE @]
    /\ pc' = "returned"
    /\ UNCHANGED <<accounts, budget_entries, transactions, wishlist_items,
                   entities, entity_memberships, utcnow>>

Register ==
    /\ pc = "idle"
    /\ serial.users < MaxUsers
    /\ serial.email_tokens < MaxTokens
    /\ \E email \in Emails, password \in {"Passw0rd!"} :
        /\ call' = [op |-> "register", email |-> email, password |-> password]
        /\ CommitAuth(register(users, email_tokens, serial, email, password, utcnow))

ResendVerification ==
    /\ pc = "idle"
    /\ serial.email_tokens < MaxTokens
    /\ \E email \in Emails :
        /\ call' = [op |-> "resend_verification", email |-> email]
        /\ CommitAuth(resend_verification(users, email_tokens, serial, email, utcnow))

ForgotPassword ==
    /\ pc = "idle"
    /\ serial.email_tokens < MaxTokens
    /\ \E email \in Emails :
        /\ call' = [op |-> "forgot_password", email |-> email]
        /\ CommitAuth(forgot_password(users, email_tokens, serial, email, utcnow))

\* the token of the request: any value issued so far, or one never issued
VerifyEmail ==
    /\ pc = "idle"
    /\ \E token \in 1..(MaxTokens + 1) :
        /\ call' = [op |-> "verify_email", token |-> token]
        /\ CommitAuth(verify_email(users, email_tokens, token, utcnow))

ResetPassword ==
    /\ pc = "idle"
    /\ \E token \in 1..(MaxTokens + 1), new_password \in {"N3wpass!"} :
        /\ call' = [op |-> "reset_password", token |-> token,
                    new_password |-> new_password]
        /\ CommitAuth(reset_password(users, email_tokens, token, new_password, utcnow))

\* an hour passes between two requests
Tick ==
    /\ pc = "idle"
    /\ utcnow < MaxClock
    /\ utcnow' = utcnow + 1
    /\ UNCHANGED <<db, pc, call, result>>

NextAuth ==
    \/ Register
    \/ ResendVerification
    \/ ForgotPassword
    \/ VerifyEmail
    \/ ResetPassword
    \/ Tick
    \/ Return

SpecAuth == InitAuth /\ [][NextAuth]_vars

\* ------------------------------------------------------------------------
\* Vocabulary of the properties
\* ------------------------------------------------------------------------
Returned(op) == pc = "returned" /\ call.op = op

\* the row belongs to the caller and, when an entity was supplied, to it
InScope(row) ==
    /\ row.user_id = call.user_id
    /\ call.entity_id = NoEntity \/ row.entity_id = call.entity_id

FromIso(t) == DT(t[1], t[2], t[3], t[4])

RECURSIVE SumSeq(_)
SumSeq(ns) == IF ns = <<>> THEN 0 ELSE Head(ns) + SumSeq(Tail(ns))

\* the first instant of the k-th calendar month after the month of dt
CalendarMonth(dt, k) ==
    LET idx == dt.year * 12 + (dt.month - 1) + k
    IN  DT(idx \div 12, (idx % 12) + 1, 1, 0)

\* the i-th projected period of the pending call is [PeriodStart(i), PeriodStart(i + 1))
PeriodStart(i) == CalendarMonth(call.reference, i - 1)

InPeriod(dt, i) == NotAfter(PeriodStart(i), dt) /\ Before(dt, PeriodStart(i + 1))

\* C1: in every record of project_cashflow net = income - expenses -
\* unposted_expenses and closing_balance = opening_balance + net; each later
\* record opens with the closing balance of the record before it; so the last
\* closing balance is the first opening balance plus the sum of all nets.
C1_BalanceChain ==
    Returned("project_cashflow") =>
        /\ \A i \in DOMAIN result :
            /\ result[i].net = result[i].income - result[i].expenses
                                 - result[i].unposted_expenses
            /\ result[i].closing_balance = result[i].opening_balance + result[i].net
        /\ \A i \in 1..(Len(result) - 1) :
            result[i + 1].opening_balance = result[i].closing_balance
        /\ Len(result) > 0 =>
            result[Len(result)].closing_balance =
                result[1].opening_balance
                + SumSeq([i \in DOMAIN result |-> result[i].net])

C1_Witness ==
    /\ Returned("project_cashflow")
    /\ Len(result) >= 2
    /\ result[1].net # 0
    /\ result[2].net # 0
    /\ result[2].net # result[1].net

\* C3: project_cashflow returns exactly `months` records; the first starts on
\* the first day of the reference time's month at 00:00:00; each record ends
\* at add_months(period_start, 1); each later record starts where the record
\* before it ends, so the periods are consecutive calendar months in
\* chronological order.
C3_Periods ==
    Returned("project_cashflow") =>
        /\ Len(result) = call.months
        /\ result[1].period_start
             = <<call.reference.year, call.reference.month, 1, 0>>
        /\ \A i \in DOMAIN result :
            /\ result[i].period_end
                 = IsoDateTime(add_months(FromIso(result[i].period_start), 1))
            /\ result[i].period_start = IsoDateTime(PeriodStart(i))
            /\ result[i].period_end = IsoDateTime(PeriodStart(i + 1))
            /\ Before(FromIso(result[i].period_start), FromIso(result[i].period_end))
        /\ \A i \in 1..(Len(result) - 1) :
            result[i + 1].period_start = result[i].period_end

\* a projection of several months from a reference time that is neither the
\* first day of its month nor midnight
C3_Witness ==
    /\ Returned("project_cashflow")
    /\ call.months >= 2
    /\ call.reference.day # 1
    /\ call.reference.tod # 0

\* C4: the first opening_balance is the sum of the balances of exactly the
\* active accounts of the user (and of the entity, when one is supplied);
\* inactive accounts and transactions, posted or not, contribute nothing.
C4_OpeningBalance ==
    Returned("project_cashflow") =>
        result[1].opening_balance =
            SumSeq([i \in DOMAIN accounts |->
                       IF InScope(accounts[i]) /\ accounts[i].is_active
                       THEN accounts[i].balance * UnitsPerCent ELSE 0])

C4_Witness ==
    /\ Returned("project_cashflow")
    /\ \E i, j \in DOMAIN accounts :
        /\ InScope(accounts[i]) /\ accounts[i].is_active
        /\ InScope(accounts[j]) /\ ~accounts[j].is_active
    /\ \E i \in DOMAIN transactions :
        /\ InScope(transactions[i])
        /\ InPeriod(transactions[i].transaction_date, 1)

\* C5: in every period unposted_expenses is the sum of the unposted debits
\* dated in [period_start, period_end) minus the sum of the unposted credits
\* dated there; transfers never change it.  A lone unposted debit of 50 gives
\* unposted_expenses = 50 and net = -50, a lone unposted credit of 50 gives
\* unposted_expenses = -50 and net = +50.
SignedUnposted(txn, i) ==
    IF InScope(txn) /\ ~txn.is_posted /\ InPeriod(txn.transaction_date, i)
    THEN IF txn.transaction_type = "debit" THEN txn.amount * UnitsPerCent
         ELSE IF txn.transaction_type = "credit" THEN 0 - txn.amount * UnitsPerCent
         ELSE 0
    ELSE 0

LoneUnposted(type, i) ==
    /\ budget_entries = <<>>
    /\ Len(transactions) = 1
    /\ transactions[1].transaction_type = type
    /\ transactions[1].amount = 5000
    /\ InScope(transactions[1]) /\ ~transactions[1].is_posted
    /\ InPeriod(transactions[1].transaction_date, i)

C5_UnpostedExpenses ==
    Returned("project_cashflow") =>
        \A i \in DOMAIN result :
            /\ result[i].unposted_expenses =
                 SumSeq([k \in DOMAIN transactions |->
                            SignedUnposted(transactions[k], i)])
            /\ LoneUnposted("debit", i) =>
                 /\ result[i].unposted_expenses = 50 * 100 * UnitsPerCent
                 /\ result[i].net = 0 - 50 * 100 * UnitsPerCent
            /\ LoneUnposted("credit", i) =>
                 /\ result[i].unposted_expenses = 0 - 50 * 100 * UnitsPerCent
                 /\ result[i].net = 50 * 100 * UnitsPerCent
            /\ LoneUnposted("transfer", i) =>
                 /\ result[i].unposted_expenses = 0
                 /\ result[i].net = 0

\* a debit and a credit counted in two periods of one projection, next to a
\* transfer dated in a third
C5_Witness ==
    /\ Returned("project_cashflow")
    /\ \E i, j, k \in DOMAIN result :
        /\ result[i].unposted_expenses > 0
        /\ result[j].unposted_expenses < 0
        /\ \E n \in DOMAIN transactions :
            /\ transactions[n].transaction_type = "transfer"
            /\ InScope(transactions[n]) /\ ~transactions[n].is_posted
            /\ InPeriod(transactions[n].transaction_date, k)

\* the first n occurrences (n >= 1) of the cadence chain that starts at occ,
\* in order
RECURSIVE Chain(_, _, _)
RECURSIVE ChainAfter(_, _, _)
Chain(occ, cadence, n) ==
    IF n <= 1 THEN <<occ>>
    ELSE ChainAfter(Chain(occ, cadence, n \div 2), cadence, n - (n \div 2))
ChainAfter(left, cadence, m) ==
    left \o Chain(next_occurrence(left[Len(left)], cadence), cadence, m)

\* the occurrences of the chain that are not after limit: an occurrence is
\* at least one calendar month after the one before it, so they are among
\* the first MonthsApart(occ, limit) + 1
ChainUpTo(occ, cadence, limit) ==
    IF Before(limit, occ) THEN {}
    ELSE LET chain == Chain(occ, cadence, MonthsApart(occ, limit) + 1)
         IN  {chain[k] : k \in {j \in DOMAIN chain : NotAfter(chain[j], limit)}}

CountInPeriod(occurrences, i) ==
    Cardinality({o \in occurrences : InPeriod(o, i)})

\* how many occurrences of the chain of entry lie in the i-th period
Firings(entry, i) ==
    CountInPeriod(ChainUpTo(entry.next_occurrence, entry.cadence, PeriodStart(i + 1)), i)

\* Firings(entry, i) for every entry of the table, in its order
RECURSIVE FiringsOf(_, _)
FiringsOf(entries, i) ==
    IF entries = <<>> THEN <<>>
    ELSE <<Firings(Head(entries), i)>> \o FiringsOf(Tail(entries), i)

\* what the entry adds to the income (income = TRUE) or to the expenses of a
\* period in which it fires f times
Fired(entry, f, income) ==
    IF InScope(entry) /\ entry.is_active /\ ((entry.entry_type = "income") = income)
    THEN entry.amount * UnitsPerCent * f
    ELSE 0

\* the record is that of a period in which the k-th entry fires F[k] times
FiresAs(record, F) ==
    /\ record.income =
         SumSeq([k \in DOMAIN budget_entries |-> Fired(budget_entries[k], F[k], TRUE)])
    /\ record.expenses =
         SumSeq([k \in DOMAIN budget_entries |-> Fired(budget_entries[k], F[k], FALSE)])
    /\ \A k \in DOMAIN budget_entries :
        /\ F[k] <= 1
        /\ (/\ budget_entries[k].cadence = "monthly"
            /\ Before(budget_entries[k].next_occurrence, PeriodStart(2)))
           => F[k] = 1

\* one account of 1000, a monthly income of 500 and a monthly expense of 300,
\* both anchored at the start of the reference month
C2_Example ==
    /\ Len(accounts) = 1 /\ accounts[1].balance = 100000
    /\ accounts[1].is_active /\ InScope(accounts[1])
    /\ transactions = <<>>
    /\ Len(budget_entries) = 2
    /\ \A k \in 1..2 :
        /\ budget_entries[k].is_active /\ InScope(budget_entries[k])
        /\ budget_entries[k].cadence = "monthly"
        /\ budget_entries[k].next_occurrence = StartOfMonth(call.reference)
    /\ budget_entries[1].entry_type = "income" /\ budget_entries[1].amount = 50000
    /\ budget_entries[2].entry_type = "expense" /\ budget_entries[2].amount = 30000
    /\ call.months = 1

\* C2: in every period, income (expenses) is the sum over the active income
\* (other) entries of the amount, once for each occurrence of the entry's
\* cadence chain in [period_start, period_end); no entry fires twice in a
\* period; a monthly entry anchored before the end of the first period fires
\* exactly once in every period; the worked example gives opening 1000,
\* income 500, expenses 300, net 200, closing 1200.
C2_Firings ==
    Returned("project_cashflow") =>
        /\ \A i \in DOMAIN result :
            FiresAs(result[i], FiringsOf(budget_entries, i))
        /\ C2_Example =>
            result = << [period_label      |-> MonthLabel(PeriodStart(1)),
                         period_start      |-> IsoDateTime(PeriodStart(1)),
                         period_end        |-> IsoDateTime(PeriodStart(2)),
                         opening_balance   |-> 1000 * 100 * UnitsPerCent,
                         income            |-> 500 * 100 * UnitsPerCent,
                         expenses          |-> 300 * 100 * UnitsPerCent,
                         unposted_expenses |-> 0,
                         net               |-> 200 * 100 * UnitsPerCent,
                         closing_balance   |-> 1200 * 100 * UnitsPerCent] >>

\* an entry anchored before the first period fires in a later period
C2_Witness ==
    /\ Returned("project_cashflow")
    /\ \E k \in DOMAIN budget_entries :
        /\ InScope(budget_entries[k]) /\ budget_entries[k].is_active
        /\ Before(budget_entries[k].next_occurrence, PeriodStart(1))
        /\ \E i \in DOMAIN result : i >= 2 /\ Firings(budget_entries[k], i) = 1

\* tables that differ from txns in their posted rows only
PostedVariants(txns) ==
    { SelectSeq(txns, LAMBDA t : ~t.is_posted),
      txns \o [k \in DOMAIN TransactionRows |->
                  [TransactionRows[k] EXCEPT !.is_posted = TRUE]] }

\* C6: posted transactions never influence project_cashflow or
\* get_upcoming_items: a data set that differs only in its posted
\* transactions gives the same result.
C6_PostedIgnored ==
    /\ Returned("project_cashflow") =>
        \A v \in PostedVariants(transactions) :
            result = project_cashflow(accounts, budget_entries, v, call.user_id,
                                      call.entity_id, call.months, call.reference)
    /\ Returned("get_upcoming_items") =>
        \A v \in PostedVariants(transactions) :
            result = get_upcoming_items(budget_entries, v, call.user_id,
                                        call.entity_id, call.days, call.reference)

\* a posted transaction of the caller dated inside the window of the call
C6_Witness ==
    /\ Returned("project_cashflow")
    /\ \E k \in DOMAIN transactions, i \in DOMAIN result :
        /\ transactions[k].is_posted /\ InScope(transactions[k])
        /\ InPeriod(transactions[k].transaction_date, i)

\* C7: no call of project_cashflow, get_upcoming_items or
\* get_disposable_income changes a stored account, transaction or budget
\* entry; the stored next_occurrence of every entry stays what it was.
C7_ReadOnly ==
    [][pc' = "returned" =>
         /\ accounts' = accounts
         /\ transactions' = transactions
         /\ budget_entries' = budget_entries]_vars

\* a call walked an entry forward from an anchor that lies before its window
C7_Witness ==
    /\ pc = "returned"
    /\ call.op \in {"project_cashflow", "get_upcoming_items"}
    /\ \E k \in DOMAIN budget_entries :
        /\ InScope(budget_entries[k]) /\ budget_entries[k].is_active
        /\ Before(budget_entries[k].next_occurrence, StartOfMonth(call.reference))
        /\ result # <<>>

\* the window of the pending get_upcoming_items call
Now == call.reference
Cutoff == AddDays(call.reference, call.days)
Within(dt, from, to) == NotAfter(from, dt) /\ NotAfter(dt, to)
InWindow(dt) == Within(dt, Now, Cutoff)

InWindowOf(occurrences, from, to) == {o \in occurrences : Within(o, from, to)}

\* the first n occurrences of the cadence chain that starts at occ
FirstOccurrences(occ, cadence, n) ==
    LET chain == Chain(occ, cadence, n) IN {chain[k] : k \in DOMAIN chain}

ItemsOf(source, id) ==
    SelectSeq(result, LAMBDA x : x.source = source /\ x.source_id = id)

\* the items of entry are one for each of the occurrences, and carry its data
EmitsExactly(entry, occurrences) ==
    LET items == ItemsOf("budget_entry", entry.id)
    IN  /\ Len(items) = Cardinality(occurrences)
        /\ {items[k].due_date : k \in DOMAIN items}
             = {IsoDate(o) : o \in occurrences}
        /\ \A k \in DOMAIN items :
            /\ items[k].name = entry.name
            /\ items[k].amount = entry.amount * UnitsPerCent
            /\ items[k].entry_type = entry.entry_type

EntryItemsOwned ==
    \A k \in DOMAIN result :
        result[k].source = "budget_entry" =>
            \E n \in DOMAIN budget_entries :
                /\ budget_entries[n].id = result[k].source_id
                /\ InScope(budget_entries[n]) /\ budget_entries[n].is_active

\* C8 as stated: one item for each occurrence of the whole chain in
\* [now, cutoff], however far in the past the stored next_occurrence lies.
C8_EveryOccurrence ==
    Returned("get_upcoming_items") =>
        /\ EntryItemsOwned
        /\ \A n \in DOMAIN budget_entries :
            (InScope(budget_entries[n]) /\ budget_entries[n].is_active) =>
                EmitsExactly(budget_entries[n],
                    InWindowOf(ChainUpTo(budget_entries[n].next_occurrence,
                                         budget_entries[n].cadence, Cutoff),
                               Now, Cutoff))

\* C8 (amended): for every active budget entry get_upcoming_items emits
\* exactly one item (source "budget_entry", the entry's id, name, amount and
\* type, due_date the occurrence's date) for each occurrence among the first
\* 100 of the entry's cadence chain that satisfies now <= occurrence <=
\* cutoff, and no other budget-entry item.
C8_First100Occurrences ==
    Returned("get_upcoming_items") =>
        /\ EntryItemsOwned
        /\ \A n \in DOMAIN budget_entries :
            (InScope(budget_entries[n]) /\ budget_entries[n].is_active) =>
                EmitsExactly(budget_entries[n],
                    InWindowOf(FirstOccurrences(budget_entries[n].next_occurrence,
                                                budget_entries[n].cadence, WalkCap),
                               Now, Cutoff))

\* an entry anchored before now yields two items, the second a month after
\* the first
C8_Witness ==
    /\ Returned("get_upcoming_items")
    /\ \E n \in DOMAIN budget_entries :
        /\ Before(budget_entries[n].next_occurrence, Now)
        /\ Len(ItemsOf("budget_entry", budget_entries[n].id)) = 2

DateNotAfter(a, b) == ~DateLess(b, a)

\* C9: every item of get_upcoming_items(days = d, reference_time = R) is due
\* not before the date of R and not after the date of R + d days.
C9_DueInWindow ==
    Returned("get_upcoming_items") =>
        \A k \in DOMAIN result :
            /\ DateNotAfter(IsoDate(call.reference), result[k].due_date)
            /\ DateNotAfter(result[k].due_date,
                            IsoDate(AddDays(call.reference, call.days)))

\* items of both sources, next to rows dated outside the window
C9_Witness ==
    /\ Returned("get_upcoming_items")
    /\ \E j, k \in DOMAIN result :
        result[j].source = "budget_entry" /\ result[k].source = "transaction"
    /\ \E n \in DOMAIN transactions :
        /\ InScope(transactions[n]) /\ ~transactions[n].is_posted
        /\ ~InWindow(transactions[n].transaction_date)

\* C10: get_upcoming_items emits exactly one item (source "transaction") for
\* every unposted transaction of the caller (of the entity, when one is
\* supplied) dated in [now, cutoff], both bounds included, whatever its type,
\* and none for any other transaction; the item is named by the description,
\* or by the placeholder when the description is empty.
C10_TransactionItems ==
    Returned("get_upcoming_items") =>
        /\ \A k \in DOMAIN result :
            result[k].source = "transaction" =>
                \E n \in DOMAIN transactions :
                    transactions[n].id = result[k].source_id
        /\ \A n \in DOMAIN transactions :
            LET txn == transactions[n]
                items == ItemsOf("transaction", txn.id)
            IN  IF InScope(txn) /\ ~txn.is_posted /\ InWindow(txn.transaction_date)
                THEN /\ Len(items) = 1
                     /\ items[1].name = (IF txn.description = "" THEN "Unposted transaction"
                                         ELSE txn.description)
                     /\ items[1].amount = txn.amount * UnitsPerCent
                     /\ items[1].due_date = IsoDate(txn.transaction_date)
                     /\ items[1].entry_type = txn.transaction_type
                ELSE items = <<>>

\* a transfer dated at the cutoff and a transaction with no description,
\* both listed
C10_Witness ==
    /\ Returned("get_upcoming_items")
    /\ \E j, k \in DOMAIN result :
        /\ result[j].source = "transaction" /\ result[j].entry_type = "transfer"
        /\ \E n \in DOMAIN transactions :
            /\ transactions[n].id = result[j].source_id
            /\ transactions[n].transaction_date = Cutoff
        /\ result[k].source = "transaction" /\ result[k].name = "Unposted transaction"

\* a date as the number its ISO string spells without the dashes
DateNumber(d) == d[1] * 10000 + d[2] * 100 + d[3]

\* position of the row with the given id in a table
RowIndex(table, id) == CHOOSE k \in DOMAIN table : table[k].id = id

\* C11: the list of get_upcoming_items is in ascending due_date order and
\* the sort is stable: of two items due the same day a budget-entry item
\* comes before a transaction item, budget-entry items stand in the query
\* order of their entries and transaction items in that of their rows.
C11_SortedStable ==
    Returned("get_upcoming_items") =>
        \A i, j \in DOMAIN result :
            i < j =>
                /\ DateNumber(result[i].due_date) <= DateNumber(result[j].due_date)
                /\ result[i].due_date = result[j].due_date =>
                    /\ ~(result[i].source = "transaction"
                         /\ result[j].source = "budget_entry")
                    /\ (result[i].source = "budget_entry"
                        /\ result[j].source = "budget_entry") =>
                           RowIndex(budget_entries, result[i].source_id)
                             <= RowIndex(budget_entries, result[j].source_id)
                    /\ (result[i].source = "transaction"
                        /\ result[j].source = "transaction") =>
                           RowIndex(transactions, result[i].source_id)
                             < RowIndex(transactions, result[j].source_id)

\* two entries and a transaction due the same day, listed in that order
\* behind an item the walk of the second entry appended before them
C11_Witness ==
    /\ Returned("get_upcoming_items")
    /\ \E i \in DOMAIN result :
        /\ i + 2 \in DOMAIN result
        /\ result[i].due_date = result[i + 2].due_date
        /\ result[i].source = "budget_entry"
        /\ result[i + 1].source = "budget_entry"
        /\ result[i + 1].source_id # result[i].source_id
        /\ result[i + 2].source = "transaction"
        /\ \E k \in DOMAIN result :
            k > i + 2 /\ result[k].source_id = result[i].source_id
                      /\ result[k].source = "budget_entry"

\* the walk of entry in the pending call, given twice the iterations the cap
\* allows: [occ, counter, items] when it stops
WalkEnd(entry) ==
    WalkUpcomingFor([occ |-> entry.next_occurrence, counter |-> 0, items |-> <<>>],
                    entry, Now, Cutoff, 2 * WalkCap)

\* C12: in get_upcoming_items the walk of every budget entry has left its
\* loop after at most 100 iterations, whatever the stored next_occurrence,
\* the cadence and the window, and the entry has at most 100 items in the
\* result.
C12_WalkCapped ==
    Returned("get_upcoming_items") =>
        \A n \in DOMAIN budget_entries :
            (InScope(budget_entries[n]) /\ budget_entries[n].is_active) =>
                LET w == WalkEnd(budget_entries[n])
                IN  /\ ~(NotAfter(w.occ, Cutoff) /\ w.counter < WalkCap)
                    /\ w.counter <= WalkCap
                    /\ Len(w.items) <= w.counter
                    /\ ItemsOf("budget_entry", budget_entries[n].id) = w.items
                    /\ Len(ItemsOf("budget_entry", budget_entries[n].id)) <= WalkCap

\* a walk that the cap ends, its occurrence still not after the cutoff
C12_Witness ==
    /\ Returned("get_upcoming_items")
    /\ \E n \in DOMAIN budget_entries :
        /\ InScope(budget_entries[n]) /\ budget_entries[n].is_active
        /\ WalkEnd(budget_entries[n]).counter = WalkCap
        /\ NotAfter(WalkEnd(budget_entries[n]).occ, Cutoff)

\* months of a cadence period, 1 for a cadence that is none of the four
MonthsOfCadence(cadence) ==
    CASE cadence = "monthly" -> 1
      [] cadence = "quarterly" -> 3
      [] cadence = "semi_annual" -> 6
      [] cadence = "annual" -> 12
      [] OTHER -> 1

\* the exact sum, in units, of amount / months of cadence over the active
\* income entries (income = TRUE) or the other active entries of the caller
RECURSIVE ExactMonthly(_, _)
ExactMonthly(entries, income) ==
    IF entries = <<>> THEN 0
    ELSE LET e == Head(entries)
         IN  (IF InScope(e) /\ e.is_active /\ ((e.entry_type = "income") = income)
              THEN (e.amount * UnitsPerCent) \div MonthsOfCadence(e.cadence)
              ELSE 0)
             + ExactMonthly(Tail(entries), income)

Abs(x) == IF x < 0 THEN 0 - x ELSE x

\* r is a whole number of cents and no cent is nearer to x
RoundedToCent(r, x) ==
    /\ r % UnitsPerCent = 0
    /\ 2 * Abs(r - x) <= UnitsPerCent

\* the table with every next_occurrence set to dt
AnchoredAt(entries, dt) ==
    [k \in DOMAIN entries |-> [entries[k] EXCEPT !.next_occurrence = dt]]

\* C13 as stated: monthly_income and monthly_expenses are the sums
\* themselves and monthly_disposable is the difference of the two returned
\* values.
C13_ExactSums ==
    Returned("get_disposable_income") =>
        /\ result.monthly_income = ExactMonthly(budget_entries, TRUE)
        /\ result.monthly_expenses = ExactMonthly(budget_entries, FALSE)
        /\ result.monthly_disposable
             = result.monthly_income - result.monthly_expenses

\* C13 (amended): get_disposable_income returns, each rounded to the cent,
\* the sum of amount / divisor over the active income entries, the same sum
\* over the other active entries, and the difference of the two unrounded
\* sums, which is within one cent of the difference of the two returned
\* values; inactive entries and next_occurrence have no influence; with no
\* active entry all three are 0.
C13_RoundedSums ==
    Returned("get_disposable_income") =>
        LET inc == ExactMonthly(budget_entries, TRUE)
            exp == ExactMonthly(budget_entries, FALSE)
        IN  /\ RoundedToCent(result.monthly_income, inc)
            /\ RoundedToCent(result.monthly_expenses, exp)
            /\ RoundedToCent(result.monthly_disposable, inc - exp)
            /\ Abs(result.monthly_disposable
                     - (result.monthly_income - result.monthly_expenses))
                 <= UnitsPerCent
            /\ result = get_disposable_income(
                            AnchoredAt(budget_entries, DT(2031, 7, 9, 1)),
                            call.user_id, call.entity_id)
            /\ (\A k \in DOMAIN budget_entries :
                    ~(InScope(budget_entries[k]) /\ budget_entries[k].is_active))
                => result = [monthly_income |-> 0, monthly_expenses |-> 0,
                             monthly_disposable |-> 0]

\* an income and an expense that are no whole number of cents a month, next
\* to an inactive entry; the returned difference is a cent off the difference
\* of the returned values
C13_Witness ==
    /\ Returned("get_disposable_income")
    /\ ExactMonthly(budget_entries, TRUE) % UnitsPerCent # 0
    /\ ExactMonthly(budget_entries, FALSE) % UnitsPerCent # 0
    /\ \E k \in DOMAIN budget_entries :
        InScope(budget_entries[k]) /\ ~budget_entries[k].is_active
    /\ result.monthly_disposable # result.monthly_income - result.monthly_expenses

\* the entities of the caller
Entities == EntityArgs \ {NoEntity}

\* the rows of a table that belong to entity e (NoEntity: to no entity)
OfEntity(table, e) == SelectSeq(table, LAMBDA r : r.entity_id = e)

\* what the operation of the pending call returns for the tables and the
\* entity_id argument given, its other arguments as they are
CallWith(accts, entries, txns, entity_id) ==
    IF call.op = "project_cashflow"
    THEN project_cashflow(accts, entries, txns, call.user_id, entity_id,
                          call.months, call.reference)
    ELSE IF call.op = "get_upcoming_items"
    THEN get_upcoming_items(entries, txns, call.user_id, entity_id,
                            call.days, call.reference)
    ELSE get_disposable_income(entries, call.user_id, entity_id)

\* the result for entity e, and the result for the rows of no entity
ForEntity(e) == CallWith(accounts, budget_entries, transactions, e)
ForNoEntity ==
    CallWith(OfEntity(accounts, NoEntity), OfEntity(budget_entries, NoEntity),
             OfEntity(transactions, NoEntity), NoEntity)

RECURSIVE SumOver(_, _)
\* the sum of f[x] over the finite set S
SumOver(f, S) ==
    IF S = {} THEN 0
    ELSE LET x == CHOOSE y \in S : TRUE IN f[x] + SumOver(f, S \ {x})

Count(seq, x) == Cardinality({k \in DOMAIN seq : seq[k] = x})

MoneyFields ==
    {"opening_balance", "income", "expenses", "unposted_expenses", "net",
     "closing_balance"}

\* the result of the pending call is made of the results in parts (a
\* function from a finite set): the figures of a projection are the sums of
\* theirs, period by period; the items of a listing are theirs, each as
\* often; the monthly totals are the sums of theirs, to within the cents
\* that rounding each part can move them
MadeOf(parts) ==
    LET P == DOMAIN parts
    IN  IF call.op = "project_cashflow"
        THEN \A i \in DOMAIN result :
                /\ \A p \in P :
                    /\ Len(parts[p]) = Len(result)
                    /\ parts[p][i].period_start = result[i].period_start
                    /\ parts[p][i].period_end = result[i].period_end
                    /\ parts[p][i].period_label = result[i].period_label
                /\ \A f \in MoneyFields :
                    result[i][f] = SumOver([p \in P |-> parts[p][i][f]], P)
        ELSE IF call.op = "get_upcoming_items"
        THEN /\ Len(result) = SumOver([p \in P |-> Len(parts[p])], P)
             /\ \A k \in DOMAIN result :
                    Count(result, result[k])
                      = SumOver([p \in P |-> Count(parts[p], result[k])], P)
        ELSE \A f \in {"monthly_income", "monthly_expenses", "monthly_disposable"} :
                Abs(result[f] - SumOver([p \in P |-> parts[p][f]], P))
                  <= 2 * UnitsPerCent

\* with an entity supplied, the result is that of the rows of the entity
\* alone
ScopedToEntity ==
    (pc = "returned" /\ call.entity_id # NoEntity) =>
        result = CallWith(OfEntity(accounts, call.entity_id),
                          OfEntity(budget_entries, call.entity_id),
                          OfEntity(transactions, call.entity_id), NoEntity)

\* C14 as stated: with the entity omitted the result is the union (the sum)
\* of the results for the entities of the user.
C14_UnionOfEntities ==
    /\ ScopedToEntity
    /\ (pc = "returned" /\ call.entity_id = NoEntity) =>
          MadeOf([e \in Entities |-> ForEntity(e)])

\* C14 (amended): with entity_id supplied the three operations use only the
\* rows of the user whose entity_id equals it, so the rows of another entity
\* or of none never affect the result; with entity_id omitted they use all
\* rows of the user, and the result is the union (for sums: the sum) of the
\* results for the entities of the user and of the result for the rows of
\* the user that belong to no entity.
C14_EntityScoping ==
    /\ ScopedToEntity
    /\ (pc = "returned" /\ call.entity_id = NoEntity) =>
          MadeOf([e \in Entities \cup {NoEntity} |->
                     IF e = NoEntity THEN ForNoEntity ELSE ForEntity(e)])

\* a call without entity over active rows of two entities and of none
C14_Witness ==
    /\ Returned("project_cashflow")
    /\ call.entity_id = NoEntity
    /\ \A e \in Entities \cup {NoEntity} :
        \E k \in DOMAIN budget_entries :
            /\ budget_entries[k].entity_id = e
            /\ InScope(budget_entries[k]) /\ budget_entries[k].is_active
    /\ \A e \in Entities \cup {NoEntity} :
        \E i \in DOMAIN result : CallWith(OfEntity(accounts, e),
            OfEntity(budget_entries, e), OfEntity(transactions, e), NoEntity)[i].net # 0

\* months since year 0 of the calendar month of dt
MonthNumber(dt) == dt.year * 12 + (dt.month - 1)

\* days of the month: from its first day to the first day of the next month
DaysIn(year, month) ==
    ToOrdinal(CalendarMonth(DT(year, month, 1, 0), 1)) - ToOrdinal(DT(year, month, 1, 0))

\* C15: add_months(T, n) lies in the calendar month n months after that of
\* T, n negative too, the year carried; its day is the day of T when the
\* month has it and the last day of the month otherwise (Jan 31 + 1 month is
\* Feb 28, Feb 29 in a leap year); its time of day is that of T.
C15_AddMonths ==
    Returned("add_months") =>
        LET T == call.dt
            n == call.months
        IN  /\ result.month \in 1..12
            /\ MonthNumber(result) = MonthNumber(T) + n
            /\ result.day = (IF T.day <= DaysIn(result.year, result.month)
                             THEN T.day ELSE DaysIn(result.year, result.month))
            /\ result.tod = T.tod
            /\ (T.month = 1 /\ T.day = 31 /\ n = 1) =>
                 result = DT(T.year, 2, IF T.year = 2024 THEN 29 ELSE 28, T.tod)

\* a negative count that crosses a year and clamps the day: to the last day
\* of a February
C15_Witness ==
    /\ Returned("add_months")
    /\ call.months < 0
    /\ result.year < call.dt.year
    /\ result.month = 2
    /\ result.day < call.dt.day
    /\ call.dt.tod = 1

\* add_months(add_months(T, m), -m) for the pending add_months(T, m)
RoundTrip == add_months(result, 0 - call.months)

\* C16 as stated: the round trip is within one day of T.
C16_WithinOneDay ==
    Returned("add_months") =>
        Abs(ToOrdinal(RoundTrip) - ToOrdinal(call.dt)) <= 1

\* C16 (amended): add_months(add_months(T, m), -m) lies in the month of T
\* at the time of day of T, on the day of T or, when the month m months from
\* T is too short for that day, on the last day that month has; it is never
\* later than T and at most three days earlier, and it is T when the day of
\* T is at most 28.
C16_RoundTrip ==
    Returned("add_months") =>
        LET T == call.dt
            back == RoundTrip
        IN  /\ back.year = T.year /\ back.month = T.month /\ back.tod = T.tod
            /\ back.day = (IF T.day <= DaysIn(result.year, result.month)
                           THEN T.day ELSE DaysIn(result.year, result.month))
            /\ ToOrdinal(T) - ToOrdinal(back) \in 0..3
            /\ T.day <= 28 => back = T

\* a round trip through a February that comes back three days early
C16_Witness ==
    /\ Returned("add_months")
    /\ call.months < 0
    /\ result.month = 2
    /\ ToOrdinal(call.dt) - ToOrdinal(RoundTrip) = 3

\* C17: next_occurrence(current, cadence) is add_months(current, k) with k
\* = 1, 3, 6, 12 for monthly, quarterly, semi_annual, annual and k = 1 for
\* any other cadence; it is always strictly later than current.
C17_NextOccurrence ==
    Returned("next_occurrence") =>
        /\ result = add_months(call.current, MonthsOfCadence(call.cadence))
        /\ MonthNumber(result)
             = MonthNumber(call.current) + MonthsOfCadence(call.cadence)
        /\ Before(call.current, result)

\* a cadence that is none of the four, stepping from a 31st into a shorter
\* month
C17_Witness ==
    /\ Returned("next_occurrence")
    /\ call.cadence = "weekly"
    /\ call.current.day = 31
    /\ result.day < 31

\* C18: monthly_equivalent(amount, cadence) is the amount divided by 1, 3, 6
\* or 12 for monthly, quarterly, semi_annual or annual and the amount itself
\* for any other cadence; doubling the amount doubles it.
C18_MonthlyEquivalent ==
    Returned("monthly_equivalent") =>
        /\ result * MonthsOfCadence(call.cadence) = call.amount
        /\ call.cadence \notin {"monthly", "quarterly", "semi_annual", "annual"}
             => result = call.amount
        /\ monthly_equivalent(2 * call.amount, call.cadence) = 2 * result

\* a negative annual amount that is no whole number of cents a month
C18_Witness ==
    /\ Returned("monthly_equivalent")
    /\ call.cadence = "annual"
    /\ result % UnitsPerCent # 0
    /\ result < 0

Walking == pc \in {"walk_to_period", "walk_in_period"}

\* C19: the occurrence walk of project_cashflow ends for every stored
\* next_occurrence and every cadence: every iteration of either loop moves
\* the occurrence strictly later, and both loops are left after finitely
\* many steps although no cap counts them.
C19_WalkTerminates ==
    /\ [][(Walking /\ result' # result) => Before(result, result')]_vars
    /\ Walking ~> (pc = "returned")

\* a walk of more than WalkCap iterations that has left both loops
C19_Witness ==
    /\ pc = "returned"
    /\ call.op = "walk"
    /\ MonthsApart(call.entry.next_occurrence, call.period_start)
         > WalkCap * CadenceMonths(call.entry.cadence)
    /\ NotAfter(call.period_end, result)

\* the caller has no account, no budget entry and no unposted transaction
EmptyUser ==
    /\ \A k \in DOMAIN accounts : accounts[k].user_id # call.user_id
    /\ \A k \in DOMAIN budget_entries : budget_entries[k].user_id # call.user_id
    /\ \A k \in DOMAIN transactions :
        transactions[k].user_id # call.user_id \/ transactions[k].is_posted

\* C20: for a user with no accounts, no budget entries and no unposted
\* transactions each operation returns: get_disposable_income all zeros,
\* get_upcoming_items the empty list, project_cashflow its `months` records
\* with every monetary figure 0.
C20_EmptyUser ==
    (pc = "returned" /\ EmptyUser) =>
        /\ Returned("get_disposable_income") =>
             result = [monthly_income |-> 0, monthly_expenses |-> 0,
                       monthly_disposable |-> 0]
        /\ Returned("get_upcoming_items") => result = <<>>
        /\ Returned("project_cashflow") =>
             /\ Len(result) = call.months
             /\ \A i \in DOMAIN result : \A f \in MoneyFields : result[i][f] = 0

\* a projection for a caller without rows, next to an account and an entry
\* of another user and a posted transaction of the caller
C20_Witness ==
    /\ Returned("project_cashflow")
    /\ EmptyUser
    /\ accounts # <<>> /\ budget_entries # <<>> /\ transactions # <<>>

\* the response is an error
Failed(response) == "status_code" \in DOMAIN response

\* the response of the operation, when it is no error
Answered(op) == Returned(op) /\ ~Failed(result)

\* rate is max(0.5 * monthly_disposable, 0.01)
FlooredHalf(rate, monthly_disposable) ==
    /\ rate >= Float(1)
    /\ 2 * rate >= monthly_disposable
    /\ rate = Float(1) \/ 2 * rate = monthly_disposable

\* the row of the wishlist with the given id
ItemOf(id) == wishlist_items[RowIndex(wishlist_items, id)]

\* months is ceil(cost / rate), for rate > 0
CeilOf(months, cost, rate) == (months - 1) * rate < cost /\ cost <= months * rate

\* the months the first item of a plan takes and the months the snapshot
\* counts for each of its items come from a savings rate floored at 0.01
PlanAndSnapshotFloored ==
    /\ Answered("get_wishlist_plan") =>
        /\ FlooredHalf(result.savings_rate, result.monthly_disposable)
        /\ result.items # <<>> =>
             CeilOf(result.items[1].cumulative_months,
                    result.items[1].estimated_cost, result.savings_rate)
    /\ Answered("get_snapshot") =>
        \A k \in DOMAIN result.wishlist_next_up :
            \E rate \in {Float(1), result.monthly_summary.monthly_disposable \div 2} :
                LET months == (result.wishlist_next_up[k].cost + rate - 1) \div rate
                IN  /\ FlooredHalf(rate, result.monthly_summary.monthly_disposable)
                    /\ CeilOf(months, result.wishlist_next_up[k].cost, rate)
                    /\ result.wishlist_next_up[k].affordable_by
                         = IsoDate(AddDays(call.now, months * 30))

\* C21 as stated: the wishlist plan, the wishlist readiness and the
\* dashboard snapshot each take savings_rate = max(0.5 * monthly_disposable,
\* 0.01), so the rate they divide by and report is at least 0.01, also for a
\* monthly_disposable of zero or below.
C21_FlooredEverywhere ==
    /\ PlanAndSnapshotFloored
    /\ Answered("get_readiness") =>
        FlooredHalf(result.savings_rate, result.monthly_disposable)

\* C21, amended: the wishlist plan and the dashboard snapshot take
\* savings_rate = max(0.5 * monthly_disposable, 0.01), at least 0.01 also
\* for a monthly_disposable of zero or below; the wishlist readiness takes
\* and reports 0.5 * monthly_disposable unfloored, divides by it only when
\* it is above zero and answers 9999 months, not affordable, otherwise.
C21_SavingsRate ==
    /\ PlanAndSnapshotFloored
    /\ Answered("get_readiness") =>
        /\ 2 * result.savings_rate = result.monthly_disposable
        /\ result.savings_rate > 0 =>
             CeilOf(result.months_needed, result.estimated_cost,
                    result.savings_rate)
        /\ result.savings_rate <= 0 =>
             result.months_needed = 9999 /\ ~result.affordable_now

\* a plan with an item for a caller whose expenses exceed the income: the
\* rate is the floor
C21_Witness ==
    /\ Answered("get_wishlist_plan")
    /\ result.monthly_disposable < 0
    /\ result.savings_rate = Float(1)
    /\ result.items # <<>>

\* what the call of request r returns when it runs alone on the tables
Alone(r) ==
    CASE call[r].op = "project_cashflow" ->
            project_cashflow(accounts, budget_entries, transactions,
                             call[r].user_id, call[r].entity_id,
                             call[r].months, call[r].reference)
      [] call[r].op = "get_upcoming_items" ->
            get_upcoming_items(budget_entries, transactions, call[r].user_id,
                               call[r].entity_id, call[r].days, call[r].reference)
      [] call[r].op = "get_disposable_income" ->
            get_disposable_income(budget_entries, call[r].user_id,
                                  call[r].entity_id)

\* a step changes the locals and the result of one request at most
OneRequestSteps ==
    \A r, q \in Requests :
        (r # q /\ <<pc[r], call[r], result[r]>>' # <<pc[r], call[r], result[r]>>)
            => <<pc[q], call[q], result[q]>>' = <<pc[q], call[q], result[q]>>

\* C22: however the steps of forecast calls for the same user interleave,
\* each call returns what it returns when run alone on the unchanged data:
\* no step of a call changes a table or the locals or the result of another
\* call.
C22_Independent ==
    /\ [](\A r \in Requests : pc[r] = "returned" => result[r] = Alone(r))
    /\ [][db' = db /\ OneRequestSteps]_vars

\* a projection has returned while an upcoming-items call that has fetched
\* its budget entries waits for its transactions
C22_Witness ==
    /\ pc[1] = "returned" /\ call[1].op = "project_cashflow"
    /\ pc[2] = "query_transactions" /\ call[2].op = "get_upcoming_items"
    /\ call[2].budget_entries # <<>>
    /\ result[1] # <<>>

\* the entity has a membership with role owner
HasOwner(entity_id) ==
    \E k \in DOMAIN entity_memberships :
        /\ entity_memberships[k].entity_id = entity_id
        /\ entity_memberships[k].role = "owner"

\* C23: after any sequence of create_entity, add_member and remove_member
\* calls every entity has at least one membership with role owner:
\* create_entity makes the creator an owner, and remove_member leaves the
\* caller's own membership alone when the caller is the entity's sole owner.
C23_AlwaysAnOwner ==
    \A k \in DOMAIN entities : HasOwner(entities[k].id)

\* the user holds a membership of that role in the entity
HoldsRole(user_id, entity_id, role) ==
    \E k \in DOMAIN entity_memberships :
        /\ entity_memberships[k].user_id = user_id
        /\ entity_memberships[k].entity_id = entity_id
        /\ entity_memberships[k].role = role

EntityExists(entity_id) == \E k \in DOMAIN entities : entities[k].id = entity_id

OwnerOnly == {"update_entity", "delete_entity", "add_member", "remove_member"}

\* the step is a call of one of the operations
Calls(ops) == pc = "idle" /\ pc' = "returned" /\ call'.op \in ops

\* C24: update_entity, delete_entity, add_member and remove_member change
\* an entity or a membership only when the caller holds a membership with
\* role owner in the target entity; a caller who is a plain member or no
\* member of the target entity gets a 403 and entities and memberships stay
\* as they are; delete_entity only sets is_active to false (and stamps
\* updated_at): it removes neither the entity nor a membership.
C24_OwnerOnly ==
    [][ /\ Calls(OwnerOnly) =>
            LET owner == HoldsRole(call'.current_user, call'.entity_id, "owner")
                target == EntityExists(call'.entity_id)
            IN  /\ <<entities, entity_memberships>>' # <<entities, entity_memberships>>
                     => owner
                /\ (~owner /\ (target \/ call'.op = "remove_member")) =>
                     /\ result'.status_code = 403
                     /\ <<entities, entity_memberships>>' = <<entities, entity_memberships>>
        /\ Calls({"delete_entity"}) =>
            /\ entity_memberships' = entity_memberships
            /\ DOMAIN entities' = DOMAIN entities
            /\ \A k \in DOMAIN entities :
                /\ entities'[k].id = entities[k].id
                /\ entities'[k].name = entities[k].name
                /\ entities[k].id # call'.entity_id => entities'[k] = entities[k]
                /\ entities'[k] # entities[k] => ~entities'[k].is_active
      ]_vars

\* a plain member of an entity was refused the addition of a member
C24_Witness ==
    /\ pc = "returned"
    /\ call.op = "add_member"
    /\ HoldsRole(call.current_user, call.entity_id, "member")
    /\ ~HoldsRole(call.current_user, call.entity_id, "owner")
    /\ result.status_code = 403

\* place of a priority in the order critical, high, medium, low
Rank(priority) ==
    CHOOSE n \in 1..4 : <<"critical", "high", "medium", "low">>[n] = priority

\* the months counted for the k-th item of a plan alone
OwnMonths(items, k) ==
    items[k].cumulative_months - (IF k = 1 THEN 0 ELSE items[k - 1].cumulative_months)

\* C25: the plan of get_wishlist_plan lists the caller's unpurchased items
\* once each, by priority (critical, high, medium, low) and then by creation
\* time; the cumulative_months of an item is the sum of
\* ceil(estimated_cost / savings_rate) over it and the items before it, so
\* cumulative_months and estimated_purchase_date never decrease along the
\* plan.
C25_PlanOrder ==
    Answered("get_wishlist_plan") =>
        LET items == result.items
        IN  /\ Len(items) = Cardinality({k \in DOMAIN wishlist_items :
                                /\ wishlist_items[k].user_id = call.user_id
                                /\ ~wishlist_items[k].is_purchased})
            /\ \A i, j \in DOMAIN items : i # j => items[i].item_id # items[j].item_id
            /\ \A k \in DOMAIN items :
                /\ \E w \in DOMAIN wishlist_items :
                    /\ wishlist_items[w].id = items[k].item_id
                    /\ wishlist_items[w].user_id = call.user_id
                    /\ ~wishlist_items[w].is_purchased
                /\ items[k].estimated_cost = Float(ItemOf(items[k].item_id).estimated_cost)
                /\ CeilOf(OwnMonths(items, k), items[k].estimated_cost,
                          result.savings_rate)
            /\ \A i, j \in DOMAIN items : i < j =>
                LET a == ItemOf(items[i].item_id)
                    b == ItemOf(items[j].item_id)
                IN  /\ Rank(a.priority) <= Rank(b.priority)
                    /\ Rank(a.priority) = Rank(b.priority) => a.created_at <= b.created_at
                    /\ items[i].cumulative_months <= items[j].cumulative_months
                    /\ DateNumber(items[i].estimated_purchase_date)
                         <= DateNumber(items[j].estimated_purchase_date)

\* a plan of three items whose first was created after its second: the
\* priority decides before the creation time
C25_Witness ==
    /\ Answered("get_wishlist_plan")
    /\ Len(result.items) = 3
    /\ ItemOf(result.items[1].item_id).created_at
         > ItemOf(result.items[2].item_id).created_at
    /\ result.items[3].cumulative_months
         > result.items[2].cumulative_months + 1

\* the projection of the pending call over the store without the transaction
WithoutTxn(txn) ==
    project_cashflow(accounts, budget_entries,
                     SelectSeq(transactions, LAMBDA t : t.id # txn.id),
                     call.user_id, call.entity_id, call.months, call.reference)

\* the periods of the returned projection whose unposted figure the
\* transaction changes
CountedIn(txn) ==
    {i \in DOMAIN result :
        result[i].unposted_expenses # WithoutTxn(txn)[i].unposted_expenses}

Signed(txn) ==
    IF txn.transaction_type = "debit" THEN txn.amount * UnitsPerCent
    ELSE 0 - txn.amount * UnitsPerCent

UnpostedDebitOrCredit(txn) ==
    /\ InScope(txn) /\ ~txn.is_posted
    /\ txn.transaction_type \in {"debit", "credit"}

\* dated in [first period_start, last period_end) of the returned projection
InHorizon(txn) ==
    /\ NotAfter(FromIso(result[1].period_start), txn.transaction_date)
    /\ Before(txn.transaction_date, FromIso(result[Len(result)].period_end))

\* C26: in project_cashflow an unposted debit or credit is counted in at most
\* one period; dated in [first period_start, last period_end) it is counted
\* in exactly the period that contains its date; dated before the first day
\* of the reference month or on or after the last period_end it is counted
\* in no period and changes no balance.
C26_CountedOnce ==
    Returned("project_cashflow") =>
        \A n \in DOMAIN transactions :
            LET txn == transactions[n]
                without == WithoutTxn(txn)
            IN  UnpostedDebitOrCredit(txn) =>
                    /\ Cardinality(CountedIn(txn)) <= 1
                    /\ FromIso(result[1].period_start) = StartOfMonth(call.reference)
                    /\ IF InHorizon(txn)
                       THEN \E i \in DOMAIN result :
                              /\ NotAfter(FromIso(result[i].period_start), txn.transaction_date)
                              /\ Before(txn.transaction_date, FromIso(result[i].period_end))
                              /\ CountedIn(txn) = {i}
                              /\ result[i].unposted_expenses =
                                   without[i].unposted_expenses + Signed(txn)
                              /\ \A j \in DOMAIN result :
                                   result[j].closing_balance =
                                     without[j].closing_balance
                                     - (IF j >= i THEN Signed(txn) ELSE 0)
                       ELSE /\ CountedIn(txn) = {}
                            /\ result = without

\* one projection with an overdue unposted debit, an unposted debit inside
\* its horizon and an unposted credit dated on its last period_end
C26_Witness ==
    /\ Returned("project_cashflow")
    /\ \E a, b, c \in DOMAIN transactions :
        /\ UnpostedDebitOrCredit(transactions[a])
        /\ Before(transactions[a].transaction_date, StartOfMonth(call.reference))
        /\ UnpostedDebitOrCredit(transactions[b])
        /\ InHorizon(transactions[b])
        /\ CountedIn(transactions[b]) # {}
        /\ UnpostedDebitOrCredit(transactions[c])
        /\ transactions[c].transaction_date = FromIso(result[Len(result)].period_end)

Range(rows) == {rows[k] : k \in DOMAIN rows}

\* the rows of a table that belong to the caller and, when an entity was
\* supplied, carry it
Own(rows) == SelectSeq(rows, LAMBDA r : InScope(r))

\* the rows of a table that belong to the caller
OfCaller(rows) == SelectSeq(rows, LAMBDA r : r.user_id = call.user_id)

\* the pending call answered from the given tables
AnswerFrom(accts, entries, txns) ==
    IF call.op = "project_cashflow"
    THEN project_cashflow(accts, entries, txns, call.user_id, call.entity_id,
                          call.months, call.reference)
    ELSE IF call.op = "get_upcoming_items"
    THEN get_upcoming_items(entries, txns, call.user_id, call.entity_id,
                            call.days, call.reference)
    ELSE get_disposable_income(entries, call.user_id, call.entity_id)

IsMember(user_id, entity_id) ==
    \E k \in DOMAIN entity_memberships :
        /\ entity_memberships[k].user_id = user_id
        /\ entity_memberships[k].entity_id = entity_id

\* C27: the results of project_cashflow, get_upcoming_items and
\* get_disposable_income for a user depend only on the rows whose user_id is
\* that user: the result over the whole store is the result over the
\* caller's rows alone, so two stores that agree on them give the same result;
\* this also holds when the supplied entity is shared with other users or is
\* one the caller is no member of, and the result is then made of the
\* caller's own rows that carry that entity.
C27_OwnRowsOnly ==
    pc = "returned" =>
        /\ result = AnswerFrom(OfCaller(accounts), OfCaller(budget_entries),
                               OfCaller(transactions))
        /\ result = AnswerFrom(Own(accounts), Own(budget_entries), Own(transactions))
        /\ call.op = "get_upcoming_items" =>
              \A k \in DOMAIN result :
                  \E row \in Range(IF result[k].source = "budget_entry"
                                   THEN budget_entries ELSE transactions) :
                      row.id = result[k].source_id /\ InScope(row)

\* a call with an entity the caller is no member of, over a store with an
\* account, a budget entry or a transaction of another user that carries the
\* entity and would change the answer if it were the caller's
C27_Witness ==
    /\ pc = "returned"
    /\ call.entity_id # NoEntity
    /\ ~IsMember(call.user_id, call.entity_id)
    /\ \E other \in Range(accounts) \cup Range(budget_entries) \cup Range(transactions) :
        /\ other.user_id # call.user_id
        /\ other.entity_id = call.entity_id
    /\ LET mine(rows) == [k \in DOMAIN rows |->
                             [rows[k] EXCEPT !.user_id = call.user_id]]
       IN  result # AnswerFrom(mine(accounts), mine(budget_entries),
                               mine(transactions))
    /\ \E own \in Range(accounts) \cup Range(budget_entries) \cup Range(transactions) :
        InScope(own)

\* a loop of either occurrence walk is running
InWalk == pc \in {"walk_to_period", "walk_in_period", "walk_upcoming"}

\* the local `occ` of the running walk
Occ == IF call.op = "walk_upcoming" THEN result.occ ELSE result

\* the occurrence after k steps of the cadence from the anchor: the k-th
\* month of the cadence after the anchor's, on the anchor's day lowered to
\* the shortest of the months stepped through
Visited(anchor, step, k) == {add_months(anchor, j * step) : j \in 0..k}

ShortestDay(anchor, step, k) ==
    CHOOSE d \in {m.day : m \in Visited(anchor, step, k)} :
        \A m \in Visited(anchor, step, k) : d <= m.day

\* C28: along the occurrence walk of a budget entry, in project_cashflow
\* and in get_upcoming_items alike, the day of the month never increases:
\* an occurrence clamped to a shorter month keeps the clamped day or a lower
\* one ever after, so a monthly entry on Jan 31 occurs on the last day of
\* February and then on that same day of March, not on Mar 31; the k-th
\* walked occurrence is on the lowest day met so far and so can differ from
\* add_months(anchor, k * step).
C28_DayNeverIncreases ==
    /\ [][(InWalk /\ InWalk') =>
            /\ Occ'.day <= Occ.day
            /\ (call.entry.cadence = "monthly" /\ Occ' # Occ /\ Occ.month = 1
                     /\ Occ.day = 31) =>
                  /\ Occ'.month = 2
                  /\ Occ'.day = monthrange(Occ.year, 2)
            /\ (call.entry.cadence = "monthly" /\ Occ' # Occ /\ Occ.month = 2) =>
                  /\ Occ'.month = 3
                  /\ Occ'.day = Occ.day
                  /\ Occ'.day < 31]_vars
    /\ [](InWalk => Occ.day <= call.entry.next_occurrence.day)
    /\ []((pc = "walk_upcoming") =>
            LET anchor == call.entry.next_occurrence
                step == CadenceMonths(call.entry.cadence)
                k == result.counter
            IN  /\ MonthsApart(anchor, result.occ) = k * step
                /\ result.occ.day = ShortestDay(anchor, step, k)
                /\ result.occ.day <= add_months(anchor, k * step).day)

\* the second walked occurrence of a monthly entry anchored on a Jan 31: on
\* Mar 28, where add_months(anchor, 2) is Mar 31
C28_Witness ==
    /\ pc = "walk_upcoming"
    /\ call.entry.cadence = "monthly"
    /\ call.entry.next_occurrence.month = 1
    /\ call.entry.next_occurrence.day = 31
    /\ result.counter = 2
    /\ result.occ.month = 3 /\ result.occ.day = 28
    /\ add_months(call.entry.next_occurrence, 2).day = 31
    /\ result.occ # add_months(call.entry.next_occurrence, 2)

\* the membership rows of the pair
RowsOf(user_id, entity_id) ==
    {k \in DOMAIN entity_memberships :
        /\ entity_memberships[k].user_id = user_id
        /\ entity_memberships[k].entity_id = entity_id}

\* C29: in every reachable state there is at most one membership row for a
\* (user, entity) pair, under every interleaving of add_member requests
\* (each first queries for an existing membership and then inserts, two
\* statements with no uniqueness constraint in the store) with create_entity
\* and remove_member; an add_member for a user who is a member already
\* fails with 400 and adds nothing.
C29_OneMembershipPerPair ==
    /\ \A user_id \in UserIds, entity_id \in EntityIdArgs :
          Cardinality(RowsOf(user_id, entity_id)) <= 1
    /\ \A r \in Requests :
          (pc[r] = "returned" /\ call[r].op = "add_member"
             /\ result[r].status_code = 201) =>
              Cardinality(RowsOf(call[r].payload.user_id, call[r].entity_id)) <= 1

\* the stored tokens of the user and type
TokensOf(tokens, user_id, token_type) ==
    SelectSeq(tokens, LAMBDA t : t.user_id = user_id /\ t.token_type = token_type)

\* the step is a call of verify_email or reset_password
UsesToken == pc = "idle" /\ pc' = "returned"
             /\ call'.op \in {"verify_email", "reset_password"}

\* the type of token the called handler looks for
TypeOf(op) == IF op = "verify_email" THEN "verify_email" ELSE "reset_password"

\* the stored rows the token of the call matches, before the call
Presented == TokenRows(email_tokens, call'.token, TypeOf(call'.op))

\* the call answered 400 and changed no row
Refused(detail) ==
    /\ result' = HTTPException(400, detail)
    /\ users' = users

\* C30: email tokens are single-use and unique per purpose: after any
\* sequence of register, resend_verification, forgot_password, verify_email
\* and reset_password calls a user has at most one stored token of a type;
\* a token accepted by verify_email or reset_password is rejected on every
\* later use, because acceptance deletes all tokens of the user and type, a
\* value that is stored no longer is never stored again, and a value that is
\* not stored is refused; an expired token is rejected and deleted and
\* leaves is_verified and password_hash as they were.
C30_SingleUse ==
    /\ [](\A k \in DOMAIN users, token_type \in EmailTokenType :
            Len(TokensOf(email_tokens, users[k].id, token_type)) <= 1)
    /\ [][UsesToken /\ result'.status_code = 200 =>
            /\ Presented # <<>>
            /\ TokensOf(email_tokens', Presented[1].user_id, TypeOf(call'.op)) = <<>>
            /\ \A token_type \in EmailTokenType :
                  TokenRows(email_tokens', call'.token, token_type) = <<>>]_vars
    /\ [][\A token \in 1..serial.email_tokens, token_type \in EmailTokenType :
            TokenRows(email_tokens, token, token_type) = <<>> =>
                TokenRows(email_tokens', token, token_type) = <<>>]_vars
    /\ [][UsesToken /\ Presented = <<>> =>
            /\ Refused("Invalid or expired token")
            /\ email_tokens' = email_tokens]_vars
    /\ [][UsesToken /\ Presented # <<>> /\ Presented[1].expires_at < utcnow =>
            /\ Refused("Token has expired")
            /\ email_tokens' = SelectSeq(email_tokens,
                                         LAMBDA t : t.id # Presented[1].id)]_vars

\* the only token issued so far, accepted by verify_email for the user that
\* registered, presented once more and refused
C30_Witness ==
    /\ pc = "returned"
    /\ call.op = "verify_email"
    /\ serial.email_tokens = 1
    /\ call.token = 1
    /\ \E k \in DOMAIN users : users[k].id > 1 /\ users[k].is_verified
    /\ result = HTTPException(400, "Invalid or expired token")

====
